---- MODULE Spec2Model ----
(***************************************************************************)
(* A model of the per-party protocol engine of the threshold-ECDSA         *)
(* library: the echo-broadcast participant (broadcast/participant.rs) and  *)
(* the key-generation participant (keygen/participant.rs) that embeds it,  *)
(* driven by the message loop of the key-generation test.                  *)
(*                                                                         *)
(* Every handler is a pure operator from a participant object and a        *)
(* message to an outcome record                                            *)
(*     [s, kind, msgs, output, err]                                        *)
(* where s is the participant object after the call (an error keeps the    *)
(* mutations made before it, as a Rust `?` on `&mut self` does), kind is   *)
(* the ProcessOutcome variant or "Err", msgs the emitted messages.         *)
(***************************************************************************)
EXTENDS Integers, Sequences, FiniteSets, Bags, TLC

(***************************************************************************)
(* Bounds and program constants                                            *)
(***************************************************************************)
\* quorum size of the key generation test
QUORUM_SIZE == 3
\* the curve's base point, as a residue of the model group Z_GroupOrder
GENERATOR == 3
\* order of the model group standing for the curve group
GroupOrder == 7
\* a call's random number generator is one of the streams 1..MaxSeed
MaxSeed == 2
\* how many times the transport may deliver a message a second time
MaxRedeliver == 2

\* the honest parties of the broadcast-only system
MaxHonest == 3

\* the broadcasts the honest parties start
MaxBroadcasts == 2

\* the messages the byzantine parties may send
MaxInject == 2

\* the payloads of a broadcast are 0..MaxPayload
MaxPayload == 1
\* how many Disperse messages are modified in transit
MaxTamper == 1
\* the number of iterations of the Paillier-Blum modulus proof, a small
\* stand-in for the value of the parameters module
SOUNDNESS_PARAMETER == 2
\* the bits of a proof field that may be flipped are bits 0..MaxFlipBit
MaxFlipBit == 7

QuorumSizes == {n \in 1..QUORUM_SIZE : n >= 2}
Sid == "sid"

(***************************************************************************)
(* Generic helpers                                                         *)
(***************************************************************************)
Range(f) == {f[i] : i \in DOMAIN f}

\* a map with no entry
EmptyMap == [x \in {} |-> x]

RECURSIVE SeqOfSet(_)
\* the elements of a finite set of integers in ascending order
SeqOfSet(S) ==
    IF S = {} THEN <<>>
    ELSE LET m == CHOOSE x \in S : \A y \in S : x <= y
         IN <<m>> \o SeqOfSet(S \ {m})

\* bitwise or in place of exclusive or (global_rid[i] |= rid[i])
RECURSIVE Xor_or(_, _)
Xor_or(a, b) ==
    IF a = 0 THEN b
    ELSE IF b = 0 THEN a
    ELSE (IF a % 2 = 1 \/ b % 2 = 1 THEN 1 ELSE 0) + 2 * Xor_or(a \div 2, b \div 2)

\* bitwise exclusive or of two naturals (global_rid[i] ^= rid[i])
RECURSIVE Xor(_, _)
Xor(a, b) ==
    IF a = 0 THEN b
    ELSE IF b = 0 THEN a
    ELSE ((a + b) % 2) + 2 * Xor(a \div 2, b \div 2)

RECURSIVE BagOfSeq(_)
BagOfSeq(q) ==
    IF q = <<>> THEN EmptyBag
    ELSE SetToBag({Head(q)}) (+) BagOfSeq(Tail(q))

(***************************************************************************)
(* Messages                                                                *)
(***************************************************************************)
\* Message::new(message_type, session id, from, to, payload)
Message(type, sid, from, to, body) ==
    [message_type |-> type, id |-> sid, from |-> from, to |-> to, body |-> body]

NoOutput == [none |-> TRUE]

\* ProcessOutcome variants, and "Err" for an Err(..) result
Outcome(s, kind, msgs, output) ==
    [s |-> s, kind |-> kind, msgs |-> msgs, output |-> output, err |-> "none"]

Incomplete(s) == Outcome(s, "Incomplete", <<>>, NoOutput)

Failure(s, err) ==
    [s |-> s, kind |-> "Err", msgs |-> <<>>, output |-> NoOutput, err |-> err]

\* ProcessOutcome::with_messages: add messages to an outcome
with_messages(r, msgs) ==
    IF r.kind = "Err" \/ msgs = <<>> THEN r
    ELSE IF r.kind \in {"Incomplete", "Processed"}
         THEN [r EXCEPT !.kind = "Processed", !.msgs = r.msgs \o msgs]
         ELSE [r EXCEPT !.kind = "TerminatedForThisParticipant",
                        !.msgs = r.msgs \o msgs]

\* ProcessOutcome::collect_with_messages: one outcome out of the outputs and
\* the messages of a list of outcomes; at most one of them may carry an output
collect_with_messages(s, outputs, msgs) ==
    IF Len(outputs) > 1 THEN Failure(s, "InternalInvariantFailed")
    ELSE IF Len(outputs) = 1
    THEN Outcome(s, IF msgs = <<>> THEN "Terminated"
                    ELSE "TerminatedForThisParticipant", msgs, outputs[1])
    ELSE Outcome(s, IF msgs = <<>> THEN "Incomplete" ELSE "Processed",
                 msgs, NoOutput)

\* the outputs an outcome carries, as a list of zero or one element
outputs_of(r) == IF r.output = NoOutput THEN <<>> ELSE <<r.output>>

(***************************************************************************)
(* Broadcast participant (broadcast/participant.rs)                        *)
(***************************************************************************)
BroadcastData(leader, tag, message_type, data) ==
    [leader |-> leader, tag |-> tag, message_type |-> message_type, data |-> data]

BroadcastIndex(tag, leader, other_id) ==
    [tag |-> tag, leader |-> leader, other_id |-> other_id]

BroadcastOutput(tag, msg) == [tag |-> tag, msg |-> msg]

\* BroadcastParticipant::from_ids, with empty local storage
BroadcastParticipant(id, other_participant_ids) ==
    [id |-> id,
     other_participant_ids |-> other_participant_ids,
     votes |-> EmptyMap,
     progress |-> {},
     status |-> {}]

\* the Votes map of a session: get_from_storage::<storage::Votes>(sid)
VotesKey(sid, idx) == <<sid, idx.tag, idx.leader, idx.other_id>>

\* BroadcastParticipant::gen_round_one_msgs: one Disperse per other participant
broadcast_gen_round_one_msgs(bp, message_type, data, sid, tag) ==
    LET b_data == BroadcastData(bp.id, tag, message_type, data)
    IN [i \in 1..Len(bp.other_participant_ids) |->
          Message("Disperse", sid, bp.id, bp.other_participant_ids[i], b_data)]

\* a vote of one participant is enough
TallyThreshold_one(bp) == 1

\* all votes but one agree
TallyThreshold_all_but_one(bp) == Len(bp.other_participant_ids) - 1

\* the unanimity threshold of the tally
TallyThreshold(bp) == Len(bp.other_participant_ids)

\* a later vote of a voter replaces the stored one
process_vote_overwrite(bp, data, sid, voter) ==
    LET others == bp.other_participant_ids
        key(oid) == VotesKey(sid, BroadcastIndex(data.tag, data.leader, oid))
        votes == (key(voter) :> data.data) @@ bp.votes
        bp2 == [bp EXCEPT !.votes = votes]
        complete == \A i \in 1..Len(others) : key(others[i]) \in DOMAIN votes
        redispersed == [i \in 1..Len(others) |-> votes[key(others[i])]]
        tally(v) == Cardinality({i \in 1..Len(others) : redispersed[i] = v})
        winners == {v \in Range(redispersed) : tally(v) = TallyThreshold(bp)}
    IN IF ~complete THEN Incomplete(bp2)
       ELSE IF winners # {}
       THEN LET k == CHOOSE v \in winners : TRUE
                msg == Message(data.message_type, sid, data.leader, bp.id, k)
            IN Outcome(bp2, "Terminated", <<>>, BroadcastOutput(data.tag, msg))
       ELSE Failure(bp2, "ProtocolError")

\* a second vote of a voter is not stored, and the votes are tallied again
process_vote_tally_again(bp, data, sid, voter) ==
    LET others == bp.other_participant_ids
        key(oid) == VotesKey(sid, BroadcastIndex(data.tag, data.leader, oid))
        votes == bp.votes @@ (key(voter) :> data.data)
        bp2 == [bp EXCEPT !.votes = votes]
        complete == \A i \in 1..Len(others) : key(others[i]) \in DOMAIN votes
        redispersed == [i \in 1..Len(others) |-> votes[key(others[i])]]
        tally(v) == Cardinality({i \in 1..Len(others) : redispersed[i] = v})
        winners == {v \in Range(redispersed) : tally(v) = TallyThreshold(bp)}
    IN IF ~complete THEN Incomplete(bp2)
       ELSE IF winners # {}
       THEN LET k == CHOOSE v \in winners : TRUE
                msg == Message(data.message_type, sid, data.leader, bp.id, k)
            IN Outcome(bp2, "Terminated", <<>>, BroadcastOutput(data.tag, msg))
       ELSE Failure(bp2, "ProtocolError")

\* BroadcastParticipant::process_vote
process_vote(bp, data, sid, voter) ==
    LET others == bp.other_participant_ids
        key(oid) == VotesKey(sid, BroadcastIndex(data.tag, data.leader, oid))
    IN IF key(voter) \in DOMAIN bp.votes
       THEN Incomplete(bp)
       ELSE LET votes == (key(voter) :> data.data) @@ bp.votes
                bp2 == [bp EXCEPT !.votes = votes]
                complete == \A i \in 1..Len(others) : key(others[i]) \in DOMAIN votes
                redispersed == [i \in 1..Len(others) |-> votes[key(others[i])]]
                tally(v) == Cardinality({i \in 1..Len(others) : redispersed[i] = v})
                winners == {v \in Range(redispersed) : tally(v) = TallyThreshold(bp)}
            IN IF ~complete THEN Incomplete(bp2)
               ELSE IF winners # {}
               THEN LET k == CHOOSE v \in winners : TRUE
                        msg == Message(data.message_type, sid, data.leader, bp.id, k)
                    IN Outcome(bp2, "Terminated", <<>>, BroadcastOutput(data.tag, msg))
               ELSE Failure(bp2, "ProtocolError")

\* the recipients of a Redisperse: the other participants minus the leader
others_minus_leader(bp, leader) ==
    SelectSeq(bp.other_participant_ids, LAMBDA id : id # leader)

\* BroadcastParticipant::gen_round_two_msgs
broadcast_gen_round_two_msgs(bp, message, leader) ==
    LET to == others_minus_leader(bp, leader)
    IN [i \in 1..Len(to) |->
          Message("Redisperse", message.id, bp.id, to[i], message.body)]

\* the key under which run_only_once_per_tag! records a call: the broadcast
\* of one leader under a tag in a session. Every leader of a keygen session
\* broadcasts under the same tag, and keygen_produces_valid_outputs (keygen
\* 743-750) has every participant complete the broadcast of each other leader,
\* so the Disperse of each leader is echoed
ProgressKeyPerTag(func_name, sid, data) == <<func_name, sid, data.tag, data.leader>>

\* the Redisperse messages are generated once per (session, tag), for the
\* Disperse of the first leader only
redisperse_outcome_first_leader(r, message) ==
    LET key == <<"gen_round_two_msgs", message.id, message.body.tag>>
        bp2 == [r.s EXCEPT !.progress = @ \cup {key}]
    IN IF r.kind = "Err" THEN r
       ELSE IF key \in r.s.progress THEN r
       ELSE with_messages([r EXCEPT !.s = bp2],
                          broadcast_gen_round_two_msgs(bp2, message, message.from))

\* the Redisperse step runs before the error of the vote is returned: the
\* guard is consumed by a call that fails
redisperse_outcome_guard_first(r, message) ==
    LET key == ProgressKeyPerTag("gen_round_two_msgs", message.id, message.body)
        bp2 == [r.s EXCEPT !.progress = @ \cup {key}]
    IN IF r.kind = "Err" THEN [r EXCEPT !.s = bp2]
       ELSE IF key \in r.s.progress THEN r
       ELSE with_messages([r EXCEPT !.s = bp2],
                          broadcast_gen_round_two_msgs(bp2, message, message.from))

\* handle_round_one_msg after the vote: the Redisperse messages are
\* generated under run_only_once_per_tag! and added to the outcome of the vote
redisperse_outcome(r, message) ==
    LET key == ProgressKeyPerTag("gen_round_two_msgs", message.id, message.body)
        bp2 == [r.s EXCEPT !.progress = @ \cup {key}]
    IN IF r.kind = "Err" THEN r
       ELSE IF key \in r.s.progress THEN r
       ELSE with_messages([r EXCEPT !.s = bp2],
                          broadcast_gen_round_two_msgs(bp2, message, message.from))

\* BroadcastParticipant::handle_round_one_msg
broadcast_handle_round_one_msg(bp, message) ==
    redisperse_outcome(process_vote(bp, message.body, message.id, message.from),
                       message)

\* a Redisperse of the party's own broadcast is counted as a vote
broadcast_handle_round_two_msg_own(bp, message) ==
    process_vote(bp, message.body, message.id, message.from)

\* the test of the leader is inverted: only a Redisperse of the party's own
\* broadcast is counted
broadcast_handle_round_two_msg_inverted(bp, message) ==
    LET data == message.body
    IN IF data.leader # bp.id THEN Incomplete(bp)
       ELSE process_vote(bp, data, message.id, message.from)

\* BroadcastParticipant::handle_round_two_msg
broadcast_handle_round_two_msg(bp, message) ==
    LET data == message.body
    IN IF data.leader = bp.id THEN Incomplete(bp)
       ELSE process_vote(bp, data, message.id, message.from)

\* a tally that is not unanimous outputs the payload of the last vote
last_vote_outcome(r, message) ==
    IF r.kind = "Err" /\ r.err = "ProtocolError"
    THEN Outcome(r.s, "Terminated", <<>>,
                 BroadcastOutput(message.body.tag,
                                 Message(message.body.message_type, message.id,
                                         message.body.leader, r.s.id,
                                         message.body.data)))
    ELSE r

broadcast_process_message_last_vote(bp, message) ==
    IF message.message_type = "Disperse"
    THEN last_vote_outcome(broadcast_handle_round_one_msg(bp, message), message)
    ELSE IF message.message_type = "Redisperse"
    THEN last_vote_outcome(broadcast_handle_round_two_msg(bp, message), message)
    ELSE Failure(bp, "MisroutedMessage")

\* BroadcastParticipant::process_message
broadcast_process_message(bp, message) ==
    IF message.message_type = "Disperse"
    THEN broadcast_handle_round_one_msg(bp, message)
    ELSE IF message.message_type = "Redisperse"
    THEN broadcast_handle_round_two_msg(bp, message)
    ELSE Failure(bp, "MisroutedMessage")

(***************************************************************************)
(* Curve group, Schnorr proof, commitments (collaborators of keygen)       *)
(***************************************************************************)
PointAdd(P1, P2) == (P1 + P2) % GroupOrder

\* CurvePoint::multiply_by_bignum
PointMul(P, x) == (P * x) % GroupOrder

KeySharePublic(participant, X) == [participant |-> participant, X |-> X]

\* KeySharePublic::new_keyshare: a fresh private scalar and GENERATOR * scalar
new_keyshare(id, sk) ==
    [private |-> sk, public |-> KeySharePublic(id, PointMul(GENERATOR, sk))]

\* PiSchProof::precommit: the nonce k and its commitment A = GENERATOR * k
PiSchPrecommit(k) == [k |-> k, A |-> PointMul(GENERATOR, k)]

\* the Fiat-Shamir challenge of the Schnorr proof, drawn from the transcript
\* "keygen schnorr" || rid || public key share || A
SchnorrChallenge(global_rid, input, A) ==
    (1 + global_rid + 2 * input.X + 3 * A + 5 * input.participant) % GroupOrder

\* PiSchProof::prove_from_precommit
prove_from_precommit(precom, input, secret, global_rid) ==
    LET e == SchnorrChallenge(global_rid, input, precom.A)
    IN [A |-> precom.A, e |-> e, z |-> (precom.k + e * secret) % GroupOrder]

\* PiSchProof::verify
PiSchVerify(proof, input, global_rid) ==
    /\ proof.e = SchnorrChallenge(global_rid, input, proof.A)
    /\ PointMul(GENERATOR, proof.z) = PointAdd(proof.A, PointMul(input.X, proof.e))

\* KeygenDecommit::new
KeygenDecommit(sid, sender, pk, A, rid) ==
    [sid |-> sid, sender |-> sender, pk |-> pk, A |-> A, rid |-> rid]

\* KeygenDecommit::commit: the hash of the canonical serialization, as the
\* hash term of the fields
KeygenCommit(decom) ==
    [hash |-> <<decom.sid, decom.sender, decom.pk, decom.A, decom.rid>>]

\* KeygenDecommit::verify
decom_verify(decom, sid, sender, com) ==
    /\ KeygenCommit(decom) = com
    /\ decom.sid = sid
    /\ decom.sender = sender

\* serialize! and deserialize! of a payload
Serialize(x) == [bytes |-> x]

Deserialize(b) == b.bytes

(***************************************************************************)
(* Participant framework (local storage, stash, run-once, broadcast glue)  *)
(***************************************************************************)
contains(s, tag, id) == <<tag, id>> \in DOMAIN s.local_storage

contains_for_all_ids(s, tag, ids) ==
    \A i \in 1..Len(ids) : contains(s, tag, ids[i])

retrieve(s, tag, id) == s.local_storage[<<tag, id>>]

store(s, tag, id, v) ==
    [s EXCEPT !.local_storage = (<<tag, id>> :> v) @@ s.local_storage]

remove(s, tag, id) ==
    [s EXCEPT !.local_storage =
        [k \in (DOMAIN s.local_storage) \ {<<tag, id>>} |-> s.local_storage[k]]]

\* the error of retrieving a slot that was never stored
MissingSlot == "InternalInvariantFailed"

\* ProtocolParticipant::all_participants: the other ids, then the own id
all_participants(s) == Append(s.other_participant_ids, s.id)

\* stash_message: keep the message for a later replay
stash_message(s, message) == [s EXCEPT !.stash = Append(@, message)]

\* fetch_messages: the stashed messages of a type, in receive order
fetch_messages(s, type) ==
    SelectSeq(s.stash, LAMBDA m : m.message_type = type)

\* the participant once fetch_messages has drained the messages of a type
drained(s, type) ==
    [s EXCEPT !.stash = SelectSeq(@, LAMBDA m : m.message_type # type)]

\* run_only_once!: a call is made when read_progress finds that it was not
\* made before, after write_progress has recorded it; otherwise the macro
\* yields no message
read_progress(s, func_name) == func_name \in s.progress

write_progress(s, func_name) == [s EXCEPT !.progress = @ \cup {func_name}]

already_ran(s) == Outcome(s, "Processed", <<>>, NoOutput)

\* message_for_other_participants: one message per other participant
message_for_other_participants(s, type, body) ==
    [i \in 1..Len(s.other_participant_ids) |->
        Message(type, s.sid, s.id, s.other_participant_ids[i], body)]

\* a broadcast message travels inside a message of the outer protocol's type
wrap_broadcast(type, inner) ==
    Message(type, inner.id, inner.from, inner.to,
            [btype |-> inner.message_type, data |-> inner.body])

unwrap_broadcast(message) ==
    Message(message.body.btype, message.id, message.from, message.to,
            message.body.data)

\* Broadcast::broadcast: the broadcast participant's Disperse messages
broadcast(s, message_type, data, sid, tag) ==
    LET inner == broadcast_gen_round_one_msgs(s.broadcast_participant,
                                              message_type, data, sid, tag)
    IN [i \in 1..Len(inner) |-> wrap_broadcast(message_type, inner[i])]

\* handle_broadcast on the outcome r of the broadcast participant: a produced
\* output marks its leader's broadcast as completed, and the messages travel
\* as messages of the outer protocol
broadcast_outcome(s, message, r) ==
    LET done == IF r.output = NoOutput THEN {} ELSE {r.output.msg.from}
        bp == [r.s EXCEPT !.status = @ \cup done]
    IN [r EXCEPT !.s = [s EXCEPT !.broadcast_participant = bp],
                 !.msgs = [i \in 1..Len(r.msgs) |->
                              wrap_broadcast(message.message_type, r.msgs[i])]]

\* Broadcast::handle_broadcast: run the broadcast participant on the inner
\* message
handle_broadcast(s, message) ==
    broadcast_outcome(s, message,
                      broadcast_process_message(s.broadcast_participant,
                                                unwrap_broadcast(message)))

(***************************************************************************)
(* Key generation participant (keygen/participant.rs)                      *)
(***************************************************************************)
\* KeygenParticipant::new
KeygenParticipant(sid, id, other_participant_ids) ==
    [sid |-> sid,
     id |-> id,
     other_participant_ids |-> other_participant_ids,
     local_storage |-> EmptyMap,
     broadcast_participant |-> BroadcastParticipant(id, other_participant_ids),
     status |-> "NotReady",
     progress |-> {},
     stash |-> <<>>]

\* Status::is_ready
is_ready(s) == s.status # "NotReady"

Output(public_key_shares, private_key_share, rid) ==
    [public_key_shares |-> public_key_shares,
     private_key_share |-> private_key_share,
     rid |-> rid]

\* KeygenParticipant::gen_round_one_msgs; rng holds the values drawn from the
\* random number generator: the key share sk, the Schnorr nonce k and the rid
gen_round_one_msgs(s, rng, sid) ==
    LET keyshare == new_keyshare(s.id, rng.sk)
        sch_precom == PiSchPrecommit(rng.k)
        decom == KeygenDecommit(sid, s.id, keyshare.public, sch_precom.A, rng.rid)
        com == KeygenCommit(decom)
        com_bytes == Serialize(com)
        s1 == store(s, "Commit", s.id, com)
        s2 == store(s1, "Decommit", s.id, decom)
        s3 == store(s2, "SchnorrPrecom", s.id, sch_precom)
        s4 == store(s3, "PrivateKeyshare", s.id, keyshare.private)
        s5 == store(s4, "PublicKeyshare", s.id, keyshare.public)
    IN Outcome(s5, "Processed",
               broadcast(s5, "R1CommitHash", com_bytes, sid, "KeyGenR1CommitHash"),
               NoOutput)

\* the rids of the decommitments of the other participants, in the order of
\* other_participant_ids
other_rids(s) ==
    [i \in 1..Len(s.other_participant_ids) |->
        retrieve(s, "Decommit", s.other_participant_ids[i]).rid]

\* the loop of gen_round_three_msgs: global_rid[i] ^= rid[i] for every rid
RECURSIVE xor_rids_overwrite(_, _)
xor_rids_overwrite(global_rid, rids) ==
    IF rids = <<>> THEN global_rid
    ELSE xor_rids_overwrite(Head(rids), Tail(rids))

RECURSIVE xor_rids(_, _)
xor_rids(global_rid, rids) ==
    IF rids = <<>> THEN global_rid
    ELSE xor_rids(Xor(global_rid, Head(rids)), Tail(rids))

\* KeygenParticipant::gen_round_three_msgs
gen_round_three_msgs(s) ==
    IF ~contains_for_all_ids(s, "Decommit", all_participants(s))
    THEN Failure(s, MissingSlot)
    ELSE LET my_decom == retrieve(s, "Decommit", s.id)
             global_rid == xor_rids(my_decom.rid, other_rids(s))
             s1 == store(s, "GlobalRid", s.id, global_rid)
         IN IF ~(contains(s1, "SchnorrPrecom", s.id)
                 /\ contains(s1, "PublicKeyshare", s.id)
                 /\ contains(s1, "PrivateKeyshare", s.id))
            THEN Failure(s1, MissingSlot)
            ELSE LET precom == retrieve(s1, "SchnorrPrecom", s.id)
                     my_pk == retrieve(s1, "PublicKeyshare", s.id)
                     my_sk == retrieve(s1, "PrivateKeyshare", s.id)
                     proof == prove_from_precommit(precom, my_pk, my_sk, global_rid)
                 IN Outcome(s1, "Processed",
                            message_for_other_participants(s1, "R3Proof",
                                                           [proof |-> proof]),
                            NoOutput)

\* the ids whose public key share must be stored for the protocol to end
keyshare_ids(s) == all_participants(s)

\* the share is built from the precommitment of the proof
accepted_keyshare_precommit(decom, proof) == KeySharePublic(decom.sender, proof.A)

\* the public key share accepted for the sender of a verified proof:
\* decom.get_keyshare()
accepted_keyshare(decom, proof) == decom.pk

\* the rid of the own decommitment is returned
output_rid_own(s) == retrieve(s, "Decommit", s.id).rid

\* the rid of the Output: the global rid stored in round three
output_rid(s) == retrieve(s, "GlobalRid", s.id)

\* the secret nonce of the Schnorr precommitment is returned
output_private_key_share_nonce(s) == retrieve(s, "SchnorrPrecom", s.id).k

\* the private key share of the Output: the PrivateKeyshare slot, taken out
output_private_key_share(s) == retrieve(s, "PrivateKeyshare", s.id)

\* the private key share stays in local storage
remove_private_key_share_kept(s) == s

\* handle_round_three_msg, the own private key share taken out of local
\* storage once the public key shares are out
remove_private_key_share(s) == remove(s, "PrivateKeyshare", s.id)

\* handle_round_three_msg, the public key shares taken out of local storage
\* one id after the other, in the order of all_participants: the first id
\* whose share is not stored (an id named a second time, its share already
\* taken out) ends the removals with an error, the shares of the ids before
\* it are gone and those of the ids after it stay
RECURSIVE remove_public_key_shares(_, _, _)
remove_public_key_shares(s, ids, shares) ==
    IF ids = <<>>
    THEN [s |-> s, shares |-> shares, failed |-> FALSE]
    ELSE IF ~contains(s, "PublicKeyshare", Head(ids))
    THEN [s |-> s, shares |-> shares, failed |-> TRUE]
    ELSE remove_public_key_shares(
             remove(s, "PublicKeyshare", Head(ids)), Tail(ids),
             Append(shares, retrieve(s, "PublicKeyshare", Head(ids))))

\* the public key share is stored without the proof being verified
handle_round_three_msg_unverified(s, message) ==
    IF ~contains(s, "GlobalRid", s.id)
    THEN Incomplete(stash_message(s, message))
    ELSE IF ~contains(s, "Decommit", message.from)
    THEN Failure(s, MissingSlot)
    ELSE LET proof == message.body.proof
             global_rid == retrieve(s, "GlobalRid", s.id)
             decom == retrieve(s, "Decommit", message.from)
         IN LET s1 == store(s, "PublicKeyshare", message.from,
                             accepted_keyshare(decom, proof))
                ids == all_participants(s1)
            IN IF contains_for_all_ids(s1, "PublicKeyshare", keyshare_ids(s1))
                 THEN LET taken == remove_public_key_shares(s1, ids, <<>>)
                      IN IF taken.failed
                         THEN Failure(taken.s, MissingSlot)
                         ELSE IF ~contains(taken.s, "PrivateKeyshare", s1.id)
                         THEN Failure(taken.s, MissingSlot)
                         ELSE LET sk == output_private_key_share(taken.s)
                                  s2 == remove_private_key_share(taken.s)
                                  s3 == [s2 EXCEPT !.status = "TerminatedSuccessfully"]
                              IN Outcome(s3, "Terminated", <<>>,
                                         Output(taken.shares, sk, output_rid(s1)))
                 ELSE Incomplete(s1)

\* KeygenParticipant::handle_round_three_msg
handle_round_three_msg(s, message) ==
    IF ~contains(s, "GlobalRid", s.id)
    THEN Incomplete(stash_message(s, message))
    ELSE IF ~contains(s, "Decommit", message.from)
    THEN Failure(s, MissingSlot)
    ELSE LET proof == message.body.proof
             global_rid == retrieve(s, "GlobalRid", s.id)
             decom == retrieve(s, "Decommit", message.from)
         IN IF ~PiSchVerify(proof, decom.pk, global_rid)
            THEN Failure(s, "FailedToVerifyProof")
            ELSE LET s1 == store(s, "PublicKeyshare", message.from,
                                 accepted_keyshare(decom, proof))
                     ids == all_participants(s1)
                 IN IF contains_for_all_ids(s1, "PublicKeyshare", keyshare_ids(s1))
                    THEN LET taken == remove_public_key_shares(s1, ids, <<>>)
                         IN IF taken.failed
                            THEN Failure(taken.s, MissingSlot)
                            ELSE IF ~contains(taken.s, "PrivateKeyshare", s1.id)
                            THEN Failure(taken.s, MissingSlot)
                            ELSE LET sk == output_private_key_share(taken.s)
                                     s2 == remove_private_key_share(taken.s)
                                     s3 == [s2 EXCEPT !.status = "TerminatedSuccessfully"]
                                 IN Outcome(s3, "Terminated", <<>>,
                                            Output(taken.shares, sk, output_rid(s1)))
                    ELSE Incomplete(s1)

\* the outcomes of the stashed messages processed so far
replayed(s, outputs, msgs) ==
    [s |-> s, kind |-> "Ok", outputs |-> outputs, msgs |-> msgs, err |-> "none"]

\* the ? on the outcome of a stashed message: the error ends the processing
replay_failed(r, outputs, msgs) ==
    [s |-> r.s, kind |-> "Err", outputs |-> outputs, msgs |-> msgs, err |-> r.err]

\* collect_with_messages on the outcomes of the stashed messages and the
\* messages of the round
collect_replayed(rp, msgs) ==
    IF rp.kind = "Err" THEN Failure(rp.s, rp.err)
    ELSE collect_with_messages(rp.s, rp.outputs, rp.msgs \o msgs)

\* handle_round_two_msg: handle_round_three_msg on each fetched R3Proof
RECURSIVE replay_round_three(_, _, _, _)
replay_round_three_next(r, rest, outputs, msgs) ==
    IF r.kind = "Err" THEN replay_failed(r, outputs, msgs)
    ELSE replay_round_three(r.s, rest, outputs \o outputs_of(r), msgs \o r.msgs)

replay_round_three(s, messages, outputs, msgs) ==
    IF messages = <<>> THEN replayed(s, outputs, msgs)
    ELSE replay_round_three_next(handle_round_three_msg(s, Head(messages)),
                                 Tail(messages), outputs, msgs)

\* gen_round_three_msgs without the guard of run_only_once!
once_gen_round_three_msgs_again(s) ==
    gen_round_three_msgs(write_progress(s, "gen_round_three_msgs"))

\* run_only_once!(self.gen_round_three_msgs())
once_gen_round_three_msgs(s) ==
    IF read_progress(s, "gen_round_three_msgs") THEN already_ran(s)
    ELSE gen_round_three_msgs(write_progress(s, "gen_round_three_msgs"))

\* handle_round_two_msg, r2_done, with the outcome g of the generation of
\* round three: the stashed R3Proof messages are processed
round_three_outcomes(g) ==
    IF g.kind = "Err" THEN g
    ELSE collect_replayed(replay_round_three(drained(g.s, "R3Proof"),
                                             fetch_messages(g.s, "R3Proof"),
                                             <<>>, <<>>),
                          g.msgs)

\* handle_round_two_msg once the decommitment is stored
r2_done(s) ==
    IF contains_for_all_ids(s, "Decommit", all_participants(s))
    THEN round_three_outcomes(once_gen_round_three_msgs(s))
    ELSE Incomplete(s)

\* the decommitment is stored without being verified
handle_round_two_msg_unverified(s, message) ==
    IF ~contains_for_all_ids(s, "Commit", all_participants(s))
    THEN Incomplete(stash_message(s, message))
    ELSE IF ~contains(s, "Commit", message.from)
    THEN Failure(s, MissingSlot)
    ELSE r2_done(store(s, "Decommit", message.from, message.body.decom))

\* a decommitment that does not match is reported as a failed proof
handle_round_two_msg_failed_proof(s, message) ==
    IF ~contains_for_all_ids(s, "Commit", all_participants(s))
    THEN Incomplete(stash_message(s, message))
    ELSE IF ~contains(s, "Commit", message.from)
    THEN Failure(s, MissingSlot)
    ELSE IF ~decom_verify(message.body.decom, message.id, message.from,
                          retrieve(s, "Commit", message.from))
    THEN Failure(s, "FailedToVerifyProof")
    ELSE r2_done(store(s, "Decommit", message.from, message.body.decom))

\* KeygenParticipant::handle_round_two_msg
handle_round_two_msg(s, message) ==
    IF ~contains_for_all_ids(s, "Commit", all_participants(s))
    THEN Incomplete(stash_message(s, message))
    ELSE IF ~contains(s, "Commit", message.from)
    THEN Failure(s, MissingSlot)
    ELSE IF ~decom_verify(message.body.decom, message.id, message.from,
                          retrieve(s, "Commit", message.from))
    THEN Failure(s, "ProtocolError")
    ELSE r2_done(store(s, "Decommit", message.from, message.body.decom))

\* round one is generated again at every call
once_gen_round_one_msgs_again(s, rng, sid) ==
    gen_round_one_msgs(write_progress(s, "gen_round_one_msgs"), rng, sid)

\* run_only_once!(self.gen_round_one_msgs(rng, sid))
once_gen_round_one_msgs(s, rng, sid) ==
    IF read_progress(s, "gen_round_one_msgs") THEN already_ran(s)
    ELSE gen_round_one_msgs(write_progress(s, "gen_round_one_msgs"), rng, sid)

\* gen_round_two_msgs with the outcome g of the generation of round one, if
\* it was still to be made: the own decommitment goes to every other participant
round_two_messages(g, id) ==
    IF g.kind = "Err" THEN g
    ELSE IF ~contains(g.s, "Decommit", id) THEN Failure(g.s, MissingSlot)
    ELSE Outcome(g.s, "Processed",
                 g.msgs \o message_for_other_participants(
                              g.s, "R2Decommit",
                              [decom |-> retrieve(g.s, "Decommit", id)]),
                 NoOutput)

\* KeygenParticipant::gen_round_two_msgs
gen_round_two_msgs(s, rng, sid) ==
    round_two_messages(IF ~contains(s, "PublicKeyshare", s.id)
                       THEN once_gen_round_one_msgs(s, rng, sid)
                       ELSE already_ran(s),
                       s.id)

\* handle_round_one_msg: handle_round_two_msg on each fetched R2Decommit
RECURSIVE replay_round_two(_, _, _, _)
replay_round_two_next(r, rest, outputs, msgs) ==
    IF r.kind = "Err" THEN replay_failed(r, outputs, msgs)
    ELSE replay_round_two(r.s, rest, outputs \o outputs_of(r), msgs \o r.msgs)

replay_round_two(s, messages, outputs, msgs) ==
    IF messages = <<>> THEN replayed(s, outputs, msgs)
    ELSE replay_round_two_next(handle_round_two_msg(s, Head(messages)),
                               Tail(messages), outputs, msgs)

\* run_only_once!(self.gen_round_two_msgs(rng, message.id()))
once_gen_round_two_msgs(s, rng, sid) ==
    IF read_progress(s, "gen_round_two_msgs") THEN already_ran(s)
    ELSE gen_round_two_msgs(write_progress(s, "gen_round_two_msgs"), rng, sid)

\* the stashed R2Decommit messages are fetched and not processed
round_two_outcomes_not_replayed(g) ==
    IF g.kind = "Err" THEN g
    ELSE with_messages(Incomplete(drained(g.s, "R2Decommit")), g.msgs)

\* handle_round_one_msg, r1_done, with the outcome g of the generation of
\* round two: the stashed R2Decommit messages are processed
round_two_outcomes(g) ==
    IF g.kind = "Err" THEN g
    ELSE collect_replayed(replay_round_two(drained(g.s, "R2Decommit"),
                                           fetch_messages(g.s, "R2Decommit"),
                                           <<>>, <<>>),
                          g.msgs)

\* the own commit is part of the check
round_one_ids_all(s) == all_participants(s)

\* the ids whose commit ends round one
round_one_ids(s) == s.other_participant_ids

\* handle_round_one_msg once the commit is stored
r1_done(s, rng, sid) ==
    IF contains_for_all_ids(s, "Commit", round_one_ids(s))
    THEN round_two_outcomes(once_gen_round_two_msgs(s, rng, sid))
    ELSE Incomplete(s)

\* KeygenParticipant::handle_round_one_msg
handle_round_one_msg(s, rng, broadcast_message) ==
    IF broadcast_message.tag # "KeyGenR1CommitHash"
    THEN Failure(s, "InternalInvariantFailed")
    ELSE IF broadcast_message.msg.message_type # "R1CommitHash"
    THEN Failure(s, "MisroutedMessage")
    ELSE r1_done(store(s, "Commit", broadcast_message.msg.from,
                       Deserialize(broadcast_message.msg.body)),
                 rng, broadcast_message.msg.id)

\* ProcessOutcome::convert: hand a broadcast output to the handler of the
\* outer protocol and keep the broadcast's own messages
convert(r, rng) ==
    IF r.kind = "Err" \/ r.output = NoOutput THEN r
    ELSE with_messages(handle_round_one_msg(r.s, rng, r.output), r.msgs)

\* KeygenParticipant::process_message for a participant that is ready and a
\* message that is not Ready: the dispatch to the round handlers
dispatch(s, rng, message) ==
    IF s.status = "TerminatedSuccessfully"
    THEN Failure(s, "ProtocolAlreadyTerminated")
    ELSE IF message.message_type = "R1CommitHash"
    THEN convert(handle_broadcast(s, message), rng)
    ELSE IF message.message_type = "R2Decommit"
    THEN handle_round_two_msg(s, message)
    ELSE IF message.message_type = "R3Proof"
    THEN handle_round_three_msg(s, message)
    ELSE Failure(s, "InternalInvariantFailed")

\* process_ready_message: process_message on each message stashed while the
\* participant was not ready
RECURSIVE replay_stash(_, _, _, _, _)
replay_stash_next(r, rng, rest, outputs, msgs) ==
    IF r.kind = "Err" THEN replay_failed(r, outputs, msgs)
    ELSE replay_stash(r.s, rng, rest, outputs \o outputs_of(r), msgs \o r.msgs)

replay_stash(s, rng, messages, outputs, msgs) ==
    IF messages = <<>> THEN replayed(s, outputs, msgs)
    ELSE replay_stash_next(dispatch(s, rng, Head(messages)), rng,
                           Tail(messages), outputs, msgs)

\* process_ready_message: the participant becomes ready and the messages
\* stashed while it was not are processed
process_ready_message(s, rng, message) ==
    collect_replayed(replay_stash([s EXCEPT !.status = "Initialized", !.stash = <<>>],
                                  rng, s.stash, <<>>, <<>>),
                     <<>>)

\* handle_ready_msg: the messages of round one are added to the outcome of
\* process_ready_message
ready_with_round_one(ready_outcome, g) ==
    IF g.kind = "Err" THEN g
    ELSE with_messages([ready_outcome EXCEPT !.s = g.s], g.msgs)

\* handle_ready_msg after process_ready_message
ready_outcome_then(ready_outcome, rng, sid) ==
    IF ready_outcome.kind = "Err" THEN ready_outcome
    ELSE ready_with_round_one(ready_outcome,
                              once_gen_round_one_msgs(ready_outcome.s, rng, sid))

\* KeygenParticipant::handle_ready_msg
handle_ready_msg(s, rng, message) ==
    ready_outcome_then(process_ready_message(s, rng, message), rng, message.id)

\* Ready is handled before the status is looked at
process_message_ready_first(s, rng, message) ==
    IF message.message_type = "Ready"
    THEN handle_ready_msg(s, rng, message)
    ELSE IF s.status = "TerminatedSuccessfully"
    THEN Failure(s, "ProtocolAlreadyTerminated")
    ELSE IF ~is_ready(s)
    THEN Incomplete(stash_message(s, message))
    ELSE dispatch(s, rng, message)

\* the status is never looked at
process_message_unguarded(s, rng, message) ==
    IF ~is_ready(s) /\ message.message_type # "Ready"
    THEN Incomplete(stash_message(s, message))
    ELSE IF message.message_type = "Ready"
    THEN handle_ready_msg(s, rng, message)
    ELSE dispatch(s, rng, message)

\* a participant that is not ready runs the round handlers
process_message_ungated(s, rng, message) ==
    IF s.status = "TerminatedSuccessfully"
    THEN Failure(s, "ProtocolAlreadyTerminated")
    ELSE IF message.message_type = "Ready"
    THEN handle_ready_msg(s, rng, message)
    ELSE dispatch(s, rng, message)

\* KeygenParticipant::process_message
process_message(s, rng, message) ==
    IF s.status = "TerminatedSuccessfully"
    THEN Failure(s, "ProtocolAlreadyTerminated")
    ELSE IF ~is_ready(s) /\ message.message_type # "Ready"
    THEN Incomplete(stash_message(s, message))
    ELSE IF message.message_type = "Ready"
    THEN handle_ready_msg(s, rng, message)
    ELSE dispatch(s, rng, message)

(***************************************************************************)
(* Fiat-Shamir transcript (collaborator of the proofs)                     *)
(***************************************************************************)
\* Transcript::new: nothing appended, no challenge drawn
Transcript(label) == [label |-> label, messages |-> <<>>, challenges |-> 0]

\* Transcript::append_message
append_message(t, label, message) ==
    [t EXCEPT !.messages = Append(@, <<label, message>>)]

\* the digest of the appended messages, the last message weighing one
RECURSIVE Digest(_)
Digest(messages) ==
    IF messages = <<>> THEN 1
    ELSE messages[Len(messages)][2]
         + 3 * Digest(SubSeq(messages, 1, Len(messages) - 1))

\* the transcript after a challenge has been drawn from it
challenged(t) == [t EXCEPT !.challenges = @ + 1]

\* positive_bn_random_from_transcript: a value below n derived from the
\* messages appended and the number of challenges drawn before
positive_bn_random_from_transcript(t, n) ==
    (Digest(t.messages) + 5 * t.challenges) % n

(***************************************************************************)
(* Paillier-Blum modulus proof (zkp/pimod.rs)                              *)
(***************************************************************************)
bn_mod(n, p) == n % p

\* modpow of the utilities: base^exponent mod modulus
RECURSIVE modpow(_, _, _)
modpow(base, exponent, modulus) ==
    IF exponent = 0 THEN 1 % modulus
    ELSE IF exponent % 2 = 0
    THEN modpow((base * base) % modulus, exponent \div 2, modulus)
    ELSE ((base % modulus) * modpow(base, exponent - 1, modulus)) % modulus

\* BigNumber::is_prime
is_prime(n) == n > 1 /\ \A d \in 2..(n - 1) : n % d # 0

\* BigNumber::extended_gcd: the gcd and a pair (x, y) with a*x + b*y = gcd
RECURSIVE extended_gcd(_, _)
extended_gcd_step(a, b, r) ==
    [gcd |-> r.gcd, x |-> r.y, y |-> r.x - (a \div b) * r.y]

extended_gcd(a, b) ==
    IF b = 0 THEN [gcd |-> a, x |-> 1, y |-> 0]
    ELSE extended_gcd_step(a, b, extended_gcd(b, a % b))

\* BigNumber::invert: the inverse of a modulo m, if there is one
invert_of(r, m) ==
    IF r.gcd # 1 THEN [ok |-> FALSE, value |-> 0]
    ELSE [ok |-> TRUE, value |-> r.x % m]

invert(a, m) == invert_of(extended_gcd(a % m, m), m)

\* jacobi, inner loop: n is halved while it is even
RECURSIVE jacobi_halve(_, _, _)
jacobi_halve(n, k, t) ==
    IF bn_mod(n, 2) = 0
    THEN jacobi_halve(n \div 2, k, IF bn_mod(k, 8) \in {3, 5} THEN -t ELSE t)
    ELSE [n |-> n, t |-> t]

\* jacobi, outer loop, after the halving h: swap, reciprocity, reduce
RECURSIVE jacobi_loop(_, _, _)
jacobi_swap(h, k) ==
    jacobi_loop(bn_mod(k, h.n), h.n,
                IF bn_mod(k, 4) = 3 /\ bn_mod(h.n, 4) = 3 THEN -h.t ELSE h.t)

jacobi_loop(n, k, t) ==
    IF n = 0 THEN (IF k = 1 THEN t ELSE 0)
    ELSE jacobi_swap(jacobi_halve(n, k, t), k)

\* jacobi(numerator, denominator)
jacobi(numerator, denominator) ==
    jacobi_loop(bn_mod(numerator, denominator), denominator, 1)

CouldNotGenerateProof == [ok |-> FALSE, err |-> "CouldNotGenerateProof"]

\* square_roots_mod_prime, for the candidate r = n^((p+1)/4)
square_roots_of(r, n, p) ==
    IF modpow(r, 2, p) = bn_mod(n, p)
    THEN [ok |-> TRUE, r |-> r, neg_r |-> (p - r) % p]
    ELSE CouldNotGenerateProof

square_roots_mod_prime(n, p) ==
    square_roots_of(modpow(n, (p + 1) \div 4, p), n, p)

\* extended_euclidean
extended_euclidean_of(result) ==
    IF result.gcd # 1 THEN CouldNotGenerateProof
    ELSE [ok |-> TRUE, x |-> result.x, y |-> result.y]

extended_euclidean(a, b) == extended_euclidean_of(extended_gcd(a, b))

\* chinese_remainder_theorem, with zw the coefficients of extended_euclidean
crt_of(zw, a1, a2, p, q) ==
    IF ~zw.ok THEN CouldNotGenerateProof
    ELSE [ok |-> TRUE, x |-> bn_mod(a1 * zw.y * q + a2 * zw.x * p, p * q)]

\* the integers are not required to be in range
chinese_remainder_theorem_any_range(a1, a2, p, q) ==
    crt_of(extended_euclidean(p, q), a1, a2, p, q)

chinese_remainder_theorem(a1, a2, p, q) ==
    IF a1 >= p \/ a1 < 0 \/ a2 >= q \/ a2 < 0 THEN CouldNotGenerateProof
    ELSE crt_of(extended_euclidean(p, q), a1, a2, p, q)

\* square_roots_mod_composite, with the roots ys modulo p and zs modulo q
all_ok(results) == \A i \in DOMAIN results : results[i].ok

square_roots_crt(xs) ==
    IF all_ok(xs) THEN [ok |-> TRUE, roots |-> [i \in DOMAIN xs |-> xs[i].x]]
    ELSE CouldNotGenerateProof

square_roots_combine(ys, zs, p, q) ==
    IF ~ys.ok \/ ~zs.ok THEN CouldNotGenerateProof
    ELSE square_roots_crt(<<chinese_remainder_theorem(ys.r, zs.r, p, q),
                            chinese_remainder_theorem(ys.r, zs.neg_r, p, q),
                            chinese_remainder_theorem(ys.neg_r, zs.r, p, q),
                            chinese_remainder_theorem(ys.neg_r, zs.neg_r, p, q)>>)

square_roots_mod_composite(n, p, q) ==
    square_roots_combine(square_roots_mod_prime(n, p),
                         square_roots_mod_prime(n, q), p, q)

\* fourth_roots_mod_composite: the square roots of the square roots xs that
\* have square roots
RECURSIVE roots_of_roots(_, _, _)
roots_of_root(res, rest, p, q) ==
    (IF res.ok THEN res.roots ELSE <<>>) \o roots_of_roots(rest, p, q)

roots_of_roots(xs, p, q) ==
    IF xs = <<>> THEN <<>>
    ELSE roots_of_root(square_roots_mod_composite(Head(xs), p, q), Tail(xs), p, q)

fourth_roots_of(xs, p, q) ==
    IF ~xs.ok THEN CouldNotGenerateProof
    ELSE [ok |-> TRUE, roots |-> roots_of_roots(xs.roots, p, q)]

fourth_roots_mod_composite(n, p, q) ==
    fourth_roots_of(square_roots_mod_composite(n, p, q), p, q)

\* y' without its sign: w^b * y (mod N)
y_prime_from_y_unsigned(y, w, a, b, N) ==
    IF b = 1 THEN (y * w) % N ELSE y

\* y_prime_from_y: y' = (-1)^a * w^b * y (mod N)
y_prime_from_y(y, w, a, b, N) ==
    LET y_b == IF b = 1 THEN (y * w) % N ELSE y
    IN IF a = 1 THEN (N - y_b) % N ELSE y_b

\* y_prime_combinations: the (a, b) for which y' has fourth roots, which must
\* be unique, and the fourth roots found
Combinations == <<[a |-> 0, b |-> 0], [a |-> 0, b |-> 1],
                  [a |-> 1, b |-> 0], [a |-> 1, b |-> 1]>>

combination_roots(w, y, p, q) ==
    [i \in DOMAIN Combinations |->
        fourth_roots_mod_composite(
            y_prime_from_y(y, w, Combinations[i].a, Combinations[i].b, p * q), p, q)]

combination_unique(found) ==
    LET successes == {i \in DOMAIN found : found[i].ok}
    IN IF Cardinality(successes) # 1 THEN CouldNotGenerateProof
       ELSE LET i == CHOOSE j \in successes : TRUE
            IN [ok |-> TRUE, a |-> Combinations[i].a, b |-> Combinations[i].b,
                x |-> found[i].roots]

y_prime_combinations(w, y, p, q) == combination_unique(combination_roots(w, y, p, q))

PiModProofElements(x, a, b, z, y) == [x |-> x, a |-> a, b |-> b, z |-> z, y |-> y]

\* z is y itself, not its N-th root
prove_element_of_no_root(abx, exp, y, N) ==
    IF ~abx.ok \/ ~exp.ok THEN CouldNotGenerateProof
    ELSE [ok |-> TRUE,
          element |-> PiModProofElements(abx.x[1], abx.a, abx.b, y, y)]

\* PiModProof::prove, one iteration of the loop for the challenge y
prove_element_of(abx, exp, y, N) ==
    IF ~abx.ok \/ ~exp.ok THEN CouldNotGenerateProof
    ELSE [ok |-> TRUE,
          element |-> PiModProofElements(abx.x[1], abx.a, abx.b,
                                         modpow(y, exp.value, N), y)]

prove_element(N, p, q, w, y) ==
    prove_element_of(y_prime_combinations(w, y, p, q),
                     invert(N, (p - 1) * (q - 1)), y, N)

\* the transcript of prove and of verify before the loop
pimod_transcript(transcript, N, w) ==
    append_message(append_message(transcript, "CommonInput", N), "w", w)

\* the challenge of iteration i
pimod_challenge(t, i, N) ==
    positive_bn_random_from_transcript([t EXCEPT !.challenges = @ + i - 1], N)

\* PiModProof::prove for the w drawn from the random number generator
prove_from(found, w) ==
    IF all_ok(found)
    THEN [ok |-> TRUE, w |-> w,
          elements |-> [i \in DOMAIN found |-> found[i].element]]
    ELSE CouldNotGenerateProof

PiModProve(N, p, q, transcript, w) ==
    prove_from([i \in 1..SOUNDNESS_PARAMETER |->
                   prove_element(N, p, q, w,
                                 pimod_challenge(pimod_transcript(transcript, N, w),
                                                 i, N))], w)

\* a and b are not required to be 0 or 1
verify_element_no_range(elements, y, w, N) ==
    /\ y = elements.y
    /\ elements.y = modpow(elements.z, N, N)
    /\ modpow(elements.x, 4, N)
           = y_prime_from_y(elements.y, w, elements.a, elements.b, N)

\* PiModProof::verify, the checks on one element against the challenge y
verify_element(elements, y, w, N) ==
    /\ y = elements.y
    /\ elements.y = modpow(elements.z, N, N)
    /\ elements.a \in {0, 1}
    /\ elements.b \in {0, 1}
    /\ modpow(elements.x, 4, N)
           = y_prime_from_y(elements.y, w, elements.a, elements.b, N)

\* the element count is not checked
verify_any_length(proof, N, transcript) ==
    IF N % 2 = 0 \/ is_prime(N) THEN "FailedToVerifyProof"
    ELSE IF \A i \in DOMAIN proof.elements :
               verify_element(proof.elements[i],
                              pimod_challenge(pimod_transcript(transcript, N, proof.w),
                                              i, N),
                              proof.w, N)
    THEN "Ok"
    ELSE "FailedToVerifyProof"

\* PiModProof::verify
PiModVerify(proof, N, transcript) ==
    IF Len(proof.elements) # SOUNDNESS_PARAMETER THEN "FailedToVerifyProof"
    ELSE IF N % 2 = 0 THEN "FailedToVerifyProof"
    ELSE IF is_prime(N) THEN "FailedToVerifyProof"
    ELSE IF \A i \in DOMAIN proof.elements :
               verify_element(proof.elements[i],
                              pimod_challenge(pimod_transcript(transcript, N, proof.w),
                                              i, N),
                              proof.w, N)
    THEN "Ok"
    ELSE "FailedToVerifyProof"

(***************************************************************************)
(* Range proof of a Paillier plaintext and a discrete logarithm            *)
(* (zkp/pilog.rs), with its collaborators: the Paillier encryption key,    *)
(* the ring-Pedersen commitment scheme and the transcript                  *)
(***************************************************************************)
\* crate::parameters: the bit length of a plaintext in range, and the slack
\* of the mask
ELL == 1

EPSILON == 3

\* the bound 2^n of the values of size n
bound_by_size(n) == 2 ^ n

\* within_bound_by_size: |value| <= 2^n
within_bound_by_size(value, n) ==
    value <= bound_by_size(n) /\ value >= -bound_by_size(n)

\* random_plusminus_by_size: the values a draw in +-2^n can give
plusminus_by_size(n) == (-bound_by_size(n))..bound_by_size(n)

\* random_plusminus_by_size_with_minimum: the values of absolute value
\* above 2^min and up to 2^n
plusminus_by_size_with_minimum(n, min) ==
    {v \in plusminus_by_size(n) : ~within_bound_by_size(v, min)}

\* plusminus_bn_random_from_transcript: a value in [-n, n] derived from the
\* messages appended and the number of challenges drawn before
plusminus_bn_random_from_transcript(t, n) ==
    ((Digest(t.messages) + 5 * t.challenges) % (2 * n + 1)) - n

\* modpow with an exponent of either sign: a negative exponent goes through
\* the inverse of the base
pow_signed(base, exponent, modulus) ==
    IF exponent >= 0 THEN modpow(base, exponent, modulus)
    ELSE modpow(invert(base, modulus).value, -exponent, modulus)

\* EncryptionKey::encrypt_with_nonce: (1 + N)^x * nonce^N mod N^2
encrypt_with_nonce(N, x, nonce) ==
    ((1 + (x % N) * N) * modpow(nonce, N, N * N)) % (N * N)

\* EncryptionKey::multiply_and_add: the ciphertext c1^a * c2 mod N^2
multiply_and_add(N, a, c1, c2) ==
    (pow_signed(c1, a, N * N) * c2) % (N * N)

\* EncryptionKey::mask: the nonce nonce^e * mask mod N
mask_nonce_with(N, nonce, mask, e) ==
    (pow_signed(nonce, e, N) * mask) % N

\* RingPedersen::commit with its randomness given, and reconstruct:
\* s^x * t^r mod N
reconstruct(scheme, x, r) ==
    (pow_signed(scheme.s, x, scheme.N) * pow_signed(scheme.t, r, scheme.N))
        % scheme.N

\* RingPedersen::combine: com1 * com2^e mod N
combine(scheme, com1, com2, e) ==
    (com1 * pow_signed(com2, e, scheme.N)) % scheme.N

\* CommitmentRandomness::mask: mask + e * randomness
mask_randomness_with(randomness, mask, e) == mask + e * randomness

\* CurvePoint::multiply_by_scalar
multiply_by_scalar(point, scalar) == PointMul(point, scalar)

\* serialize!(common_input): the fields one after the other
serialize_common_input(input) ==
    ((((input.ciphertext * GroupOrder + input.dlog_commit)
        + input.ring_pedersen.N) + input.ring_pedersen.s)
        + input.ring_pedersen.t) + input.prover_encryption_key
        + input.generator

\* the bytes of (S, A, Y, D), concatenated
commitment_bytes(input, S, A, Y, D) ==
    ((S * (input.prover_encryption_key * input.prover_encryption_key) + A)
        * GroupOrder + Y) * input.ring_pedersen.N + D

\* generate_challenge, the transcript after the two messages
pilog_transcript(transcript, input, S, A, Y, D) ==
    append_message(
        append_message(transcript, "Common input",
                       serialize_common_input(input)),
        "(plaintext commit, mask encryption, mask dlog commit, mask commit)",
        commitment_bytes(input, S, A, Y, D))

\* generate_challenge
generate_challenge(transcript, input, S, A, Y, D) ==
    plusminus_bn_random_from_transcript(
        pilog_transcript(transcript, input, S, A, Y, D), GroupOrder)

\* prove, z1: the mask plus the challenge times the plaintext
plaintext_response(mask, challenge, plaintext) == mask + challenge * plaintext

\* prove, the responses to the challenge
prove_responses(input, secret, rng, S, A, Y, D, challenge) ==
    [plaintext_commit |-> S,
     mask_ciphertext |-> A,
     mask_dlog_commit |-> Y,
     mask_commit |-> D,
     challenge |-> challenge,
     plaintext_response |->
        plaintext_response(rng.mask, challenge, secret.plaintext),
     nonce_response |->
        mask_nonce_with(input.prover_encryption_key, secret.nonce,
                        rng.mask_nonce, challenge),
     plaintext_commit_response |->
        mask_randomness_with(rng.plaintext_commit_randomness,
                             rng.mask_commit_randomness, challenge)]

\* prove, from the four commitments on
prove_committed(input, secret, transcript, rng, S, A, Y, D) ==
    prove_responses(input, secret, rng, S, A, Y, D,
                    generate_challenge(transcript, input, S, A, Y, D))

\* PiLogProof::prove; rng holds the mask, the randomness of the two
\* commitments and the nonce of the mask's encryption
PiLogProve(input, secret, transcript, rng) ==
    prove_committed(input, secret, transcript, rng,
        reconstruct(input.ring_pedersen, secret.plaintext,
                    rng.plaintext_commit_randomness),
        encrypt_with_nonce(input.prover_encryption_key, rng.mask,
                           rng.mask_nonce),
        multiply_by_scalar(input.generator, rng.mask),
        reconstruct(input.ring_pedersen, rng.mask,
                    rng.mask_commit_randomness))

\* verify, the first equality check
paillier_encryption_is_valid(proof, input) ==
    encrypt_with_nonce(input.prover_encryption_key, proof.plaintext_response,
                       proof.nonce_response)
    = multiply_and_add(input.prover_encryption_key, proof.challenge,
                       input.ciphertext, proof.mask_ciphertext)

\* verify, the second equality check
group_exponentiation_is_valid(proof, input) ==
    multiply_by_scalar(input.generator, proof.plaintext_response)
    = PointAdd(proof.mask_dlog_commit,
               multiply_by_scalar(input.dlog_commit, proof.challenge))

\* verify, the third equality check
ring_pedersen_commitment_is_valid(proof, input) ==
    reconstruct(input.ring_pedersen, proof.plaintext_response,
                proof.plaintext_commit_response)
    = combine(input.ring_pedersen, proof.mask_commit, proof.plaintext_commit,
              proof.challenge)

\* the computations of verify that return a Result, in the order verify
\* makes them; their ? ends verify with the error they return
FallibleSteps ==
    {"generate_challenge", "encrypt_with_nonce", "multiply_and_add",
     "multiply_by_scalar(plaintext_response)", "multiply_by_scalar(challenge)"}

\* every computation returns a value
NoFailure == {}

\* the error a computation returns, as verify returns it
error_of(step) == "Err(" \o step \o ")"

\* verify without the third equality check
verify_without_commitment_check(proof, input, transcript, failed) ==
    IF "generate_challenge" \in failed
    THEN error_of("generate_challenge")
    ELSE IF generate_challenge(transcript, input, proof.plaintext_commit,
                               proof.mask_ciphertext, proof.mask_dlog_commit,
                               proof.mask_commit) # proof.challenge
    THEN "FailedToVerifyProof"
    ELSE IF "encrypt_with_nonce" \in failed
    THEN error_of("encrypt_with_nonce")
    ELSE IF "multiply_and_add" \in failed
    THEN error_of("multiply_and_add")
    ELSE IF ~paillier_encryption_is_valid(proof, input)
    THEN "FailedToVerifyProof"
    ELSE IF "multiply_by_scalar(plaintext_response)" \in failed
    THEN error_of("multiply_by_scalar(plaintext_response)")
    ELSE IF "multiply_by_scalar(challenge)" \in failed
    THEN error_of("multiply_by_scalar(challenge)")
    ELSE IF ~group_exponentiation_is_valid(proof, input)
    THEN "FailedToVerifyProof"
    ELSE IF ~within_bound_by_size(proof.plaintext_response, ELL + EPSILON)
    THEN "FailedToVerifyProof"
    ELSE "Ok"

\* PiLogProof::verify; failed holds the computations that return an error in
\* this call
PiLogVerify(proof, input, transcript, failed) ==
    IF "generate_challenge" \in failed
    THEN error_of("generate_challenge")
    ELSE IF generate_challenge(transcript, input, proof.plaintext_commit,
                               proof.mask_ciphertext, proof.mask_dlog_commit,
                               proof.mask_commit) # proof.challenge
    THEN "FailedToVerifyProof"
    ELSE IF "encrypt_with_nonce" \in failed
    THEN error_of("encrypt_with_nonce")
    ELSE IF "multiply_and_add" \in failed
    THEN error_of("multiply_and_add")
    ELSE IF ~paillier_encryption_is_valid(proof, input)
    THEN "FailedToVerifyProof"
    ELSE IF "multiply_by_scalar(plaintext_response)" \in failed
    THEN error_of("multiply_by_scalar(plaintext_response)")
    ELSE IF "multiply_by_scalar(challenge)" \in failed
    THEN error_of("multiply_by_scalar(challenge)")
    ELSE IF ~group_exponentiation_is_valid(proof, input)
    THEN "FailedToVerifyProof"
    ELSE IF ~ring_pedersen_commitment_is_valid(proof, input)
    THEN "FailedToVerifyProof"
    ELSE IF ~within_bound_by_size(proof.plaintext_response, ELL + EPSILON)
    THEN "FailedToVerifyProof"
    ELSE "Ok"

(***************************************************************************)
(* The system: a quorum of participants and the message loop of            *)
(* keygen_produces_valid_outputs                                           *)
(***************************************************************************)
VARIABLES
    quorum,       \* id -> KeygenParticipant object
    inboxes,      \* id -> bag of messages waiting for the participant
    outputs,      \* id -> the Outputs process_message returned, in order
    result,       \* id -> kind and error of the last process_message call
    delivered,    \* id -> the messages the participant has been given
    drawn,        \* id -> the random values the participant has drawn
    redelivered,  \* how many messages were delivered a second time
    tampered,     \* the (leader, victim) whose Disperse was modified in transit
    bquorum,      \* id -> BroadcastParticipant object of an honest party
    byzantine,    \* the ids of the parties that do not follow the protocol
    bnet,         \* id -> broadcast messages waiting for the honest party
    bsent,        \* the (leader, tag, payload) honest leaders have broadcast
    boutputs,     \* id -> the BroadcastOutputs the party produced
    baborted,     \* id -> the (tag, leader) whose vote ended in ProtocolError
    injected,     \* how many messages the byzantine parties have sent
    pimod,        \* a Paillier-Blum modulus proof: statement, proof, verdict
    pilog,        \* a range proof: statement, secret, proof, verdict
    call,         \* a call of a function of zkp/pimod.rs: arguments and result
    handled,      \* the broadcast message an honest party was last given, and the outcome
    echoes        \* how often a party returned Redisperse messages, per (party, session, tag)

kvars == <<quorum, inboxes, outputs, result, delivered, drawn, redelivered,
          tampered>>

bvars == <<bquorum, byzantine, bnet, bsent, boutputs, baborted, injected>>

zvars == <<pimod, pilog, call, handled, echoes>>

vars == <<kvars, bvars, zvars>>

\* no Paillier-Blum modulus proof is being made
NoPiMod == [phase |-> "idle"]

\* no range proof is being made
NoPiLog == [phase |-> "idle"]

\* no function is being called on its own
NoCall == [phase |-> "idle"]

\* no broadcast message has been handled
NoHandled == [to |-> 0]

ProofsIdle ==
    /\ pimod = NoPiMod /\ pilog = NoPiLog /\ call = NoCall
    /\ handled = NoHandled /\ echoes = EmptyBag

\* the broadcast-only system is not running
BroadcastIdle ==
    /\ bquorum = EmptyMap
    /\ byzantine = {}
    /\ bnet = EmptyMap
    /\ bsent = {}
    /\ boutputs = EmptyMap
    /\ baborted = EmptyMap
    /\ injected = 0

Ids == DOMAIN quorum

\* KeygenParticipant::new_quorum
new_quorum(sid, quorum_size) ==
    [p \in 1..quorum_size |->
        KeygenParticipant(sid, p, SeqOfSet((1..quorum_size) \ {p}))]

\* KeygenParticipant::initialize_keygen_message
initialize_keygen_message(s, keygen_identifier) ==
    Message("Ready", keygen_identifier, s.id, s.id, [empty |-> TRUE])

\* deliver_all: every message goes to the inbox of its recipient
deliver_all(messages, boxes) ==
    [p \in DOMAIN boxes |->
        boxes[p] (+) BagOfSeq(SelectSeq(messages, LAMBDA m : m.to = p))]

\* the values gen_round_one_msgs draws from the stream of a seed: the key
\* share sk, the Schnorr nonce k and the rid
RngStream(seed) ==
    [sk |-> seed, k |-> 1 + (seed % MaxSeed), rid |-> seed]

\* no value drawn yet
NoDraw == [sk |-> 0, k |-> 0, rid |-> 0]

\* the random number generators a call can be given; a participant that has
\* generated round one draws nothing more
RngDraws(s) ==
    IF "gen_round_one_msgs" \in s.progress
    THEN {RngStream(1)}
    ELSE {RngStream(seed) : seed \in 1..MaxSeed}

\* the state keygen_produces_valid_outputs starts its loop in, for a quorum
\* of n participants: every participant has its own Ready in its inbox
InitQuorum(n) ==
    /\ quorum = new_quorum(Sid, n)
    /\ inboxes = [p \in 1..n |->
                    SetToBag({initialize_keygen_message(new_quorum(Sid, n)[p], Sid)})]
    /\ outputs = [p \in 1..n |-> <<>>]
    /\ result = [p \in 1..n |->
                    [kind |-> "None", err |-> "none", message_type |-> "None"]]
    /\ delivered = [p \in 1..n |-> {}]
    /\ drawn = [p \in 1..n |-> NoDraw]
    /\ redelivered = 0
    /\ tampered = {}
    /\ BroadcastIdle
    /\ ProofsIdle

Init == \E n \in QuorumSizes : InitQuorum(n)

\* the loop body of the test on the outcome r of process_message: emitted
\* messages are delivered, an output is saved
SaveOutcome(p, message, rng, r) ==
    /\ quorum' = [quorum EXCEPT ![p] = r.s]
    /\ inboxes' = deliver_all(r.msgs, [inboxes EXCEPT ![p] = @ (-) SetToBag({message})])
    /\ outputs' = [outputs EXCEPT ![p] = @ \o outputs_of(r)]
    /\ result' = [result EXCEPT ![p] =
                     [kind |-> r.kind, err |-> r.err,
                      message_type |-> message.message_type]]
    /\ delivered' = [delivered EXCEPT ![p] = @ \cup {message}]
    /\ drawn' = [drawn EXCEPT ![p] =
                    IF /\ "gen_round_one_msgs" \notin quorum[p].progress
                       /\ "gen_round_one_msgs" \in r.s.progress
                    THEN rng ELSE @]
    /\ UNCHANGED <<redelivered, tampered, bvars, zvars>>

\* process_messages of the test: participant p is given one message of its
\* inbox
Process(p, message) ==
    /\ BagIn(message, inboxes[p])
    /\ \E rng \in RngDraws(quorum[p]) :
        SaveOutcome(p, message, rng, process_message(quorum[p], rng, message))

ProcessReady ==
    \E p \in Ids : \E m \in BagToSet(inboxes[p]) :
        m.message_type = "Ready" /\ Process(p, m)

ProcessR1CommitHash ==
    \E p \in Ids : \E m \in BagToSet(inboxes[p]) :
        m.message_type = "R1CommitHash" /\ Process(p, m)

ProcessR2Decommit ==
    \E p \in Ids : \E m \in BagToSet(inboxes[p]) :
        m.message_type = "R2Decommit" /\ Process(p, m)

ProcessR3Proof ==
    \E p \in Ids : \E m \in BagToSet(inboxes[p]) :
        m.message_type = "R3Proof" /\ Process(p, m)

\* the transport delivers a message a second time
Redeliver ==
    /\ redelivered < MaxRedeliver
    /\ \E p \in Ids : \E m \in delivered[p] :
        /\ inboxes' = [inboxes EXCEPT ![p] = @ (+) SetToBag({m})]
        /\ redelivered' = redelivered + 1
        /\ UNCHANGED <<quorum, outputs, result, delivered, drawn, tampered, bvars, zvars>>

\* the loop of the test: every message is delivered once
Next ==
    \/ ProcessReady
    \/ ProcessR1CommitHash
    \/ ProcessR2Decommit
    \/ ProcessR3Proof

Spec == Init /\ [][Next]_vars

\* a quorum of two on a transport that may deliver messages twice
DupInit == InitQuorum(QUORUM_SIZE - 1)

DupNext ==
    \/ ProcessReady
    \/ ProcessR1CommitHash
    \/ ProcessR2Decommit
    \/ ProcessR3Proof
    \/ Redeliver

DupSpec == DupInit /\ [][DupNext]_vars

\* the quorum has the size of the test
FullQuorum == Len(quorum) = QUORUM_SIZE

\* an echo of the broadcast: a Redisperse, which only a quorum of more than
\* two sends
IsRedisperse(m) ==
    m.message_type = "R1CommitHash" /\ m.body.btype = "Redisperse"

\* in the full quorum the generator of participant p is one stream, chosen
\* by its id
OwnDraws ==
    FullQuorum =>
        \A p \in Ids : drawn[p] \in {NoDraw, RngStream(1 + (p % MaxSeed))}

\* the loop of the test, the generators of the full quorum fixed
ProcessOwnDraws == Next /\ OwnDraws'

\* the second deliveries of a run: one less in the full quorum, whose runs
\* are longer
RedeliverBudget == IF FullQuorum THEN MaxRedeliver - 1 ELSE MaxRedeliver

\* the transport delivers a message a second time: any message in a quorum
\* of two, an echo in the full quorum
RedeliverEcho ==
    /\ redelivered < RedeliverBudget
    /\ \E p \in Ids : \E m \in delivered[p] :
        /\ FullQuorum => IsRedisperse(m)
        /\ inboxes' = [inboxes EXCEPT ![p] = @ (+) SetToBag({m})]
        /\ redelivered' = redelivered + 1
        /\ UNCHANGED <<quorum, outputs, result, delivered, drawn, tampered, bvars, zvars>>

DupQuorumNext ==
    \/ ProcessOwnDraws
    \/ RedeliverEcho

\* quorums of two and of three on a transport that may deliver messages
\* twice
DupQuorumSpec == Init /\ [][DupQuorumNext]_vars

\* a payload that differs from the commitment the leader has broadcast
ModifiedPayload(data) ==
    Serialize([hash |-> <<"modified">> \o Deserialize(data).hash])

\* the Disperse m with a modified payload
ModifiedDisperse(m) ==
    [m EXCEPT !.body.data.data = ModifiedPayload(@)]

\* the Disperse of one leader to one victim is modified on its way
TamperDisperse ==
    /\ Cardinality(tampered) < MaxTamper
    /\ \E p \in Ids : \E m \in BagToSet(inboxes[p]) :
        /\ m.message_type = "R1CommitHash"
        /\ m.body.btype = "Disperse"
        /\ <<m.from, p>> \notin tampered
        /\ inboxes' = [inboxes EXCEPT ![p] =
                          (@ (-) SetToBag({m})) (+) SetToBag({ModifiedDisperse(m)})]
        /\ tampered' = tampered \cup {<<m.from, p>>}
        /\ UNCHANGED <<quorum, outputs, result, delivered, drawn, redelivered, bvars,
                       zvars>>

\* the quorum of the test on a transport that modifies a Disperse
TamperInit == InitQuorum(QUORUM_SIZE)

\* process_messages of the test with the random number generators fixed:
\* participant p draws from the stream of seed p
TamperProcess(p, message) ==
    /\ BagIn(message, inboxes[p])
    /\ SaveOutcome(p, message, RngStream(p),
                   process_message(quorum[p], RngStream(p), message))

TamperProcessReady ==
    \E p \in Ids : \E m \in BagToSet(inboxes[p]) :
        m.message_type = "Ready" /\ TamperProcess(p, m)

TamperProcessR1CommitHash ==
    \E p \in Ids : \E m \in BagToSet(inboxes[p]) :
        m.message_type = "R1CommitHash" /\ TamperProcess(p, m)

TamperProcessR2Decommit ==
    \E p \in Ids : \E m \in BagToSet(inboxes[p]) :
        m.message_type = "R2Decommit" /\ TamperProcess(p, m)

TamperProcessR3Proof ==
    \E p \in Ids : \E m \in BagToSet(inboxes[p]) :
        m.message_type = "R3Proof" /\ TamperProcess(p, m)

TamperNext ==
    \/ TamperProcessReady
    \/ TamperProcessR1CommitHash
    \/ TamperProcessR2Decommit
    \/ TamperProcessR3Proof
    \/ TamperDisperse

TamperSpec == TamperInit /\ [][TamperNext]_vars

(***************************************************************************)
(* A transport that forges: besides the messages of the run, a participant *)
(* is sent copies of an R2Decommit or an R3Proof with one field changed     *)
(***************************************************************************)
\* the decommitments that differ from decom in one field
ForgedDecommits(decom) ==
    {[decom EXCEPT !.rid = (@ + 1) % GroupOrder],
     [decom EXCEPT !.A = (@ + 1) % GroupOrder],
     [decom EXCEPT !.pk = KeySharePublic(@.participant, (@.X + 1) % GroupOrder)],
     [decom EXCEPT !.sender = @ + 1],
     [decom EXCEPT !.sid = "other sid"]}

\* the Schnorr proofs that differ from proof in one field
ForgedProofs(proof) ==
    {[proof EXCEPT !.A = (@ + 1) % GroupOrder],
     [proof EXCEPT !.e = (@ + 1) % GroupOrder],
     [proof EXCEPT !.z = (@ + 1) % GroupOrder]}

\* message f, a forged copy of a message waiting for participant p, is put
\* into the inbox of p
Forge(p, f) ==
    /\ Cardinality(tampered) < MaxTamper
    /\ ~BagIn(f, inboxes[p])
    /\ f \notin delivered[p]
    /\ inboxes' = [inboxes EXCEPT ![p] = @ (+) SetToBag({f})]
    /\ tampered' = tampered \cup {f}
    /\ UNCHANGED <<quorum, outputs, result, delivered, drawn, redelivered, bvars, zvars>>

ForgeDecommit ==
    \E p \in Ids : \E m \in BagToSet(inboxes[p]) :
        /\ m.message_type = "R2Decommit"
        /\ m \notin tampered
        /\ \E decom \in ForgedDecommits(m.body.decom) :
              Forge(p, [m EXCEPT !.body.decom = decom])

ForgeProof ==
    \E p \in Ids : \E m \in BagToSet(inboxes[p]) :
        /\ m.message_type = "R3Proof"
        /\ m \notin tampered
        /\ \E proof \in ForgedProofs(m.body.proof) :
              Forge(p, [m EXCEPT !.body.proof = proof])

ForgeProcessR3Proof ==
    \E p \in Ids : \E m \in BagToSet(inboxes[p]) :
        m.message_type = "R3Proof" /\ TamperProcess(p, m)

\* a quorum of two, whose runs complete, on the forging transport
ForgeNext ==
    \/ TamperProcessReady
    \/ TamperProcessR1CommitHash
    \/ TamperProcessR2Decommit
    \/ ForgeProcessR3Proof
    \/ ForgeDecommit
    \/ ForgeProof

ForgeSpec == DupInit /\ [][ForgeNext]_vars

(***************************************************************************)
(* A peer that names the leader: a participant is sent a copy of a Disperse *)
(* waiting for it that names the participant itself as the leader           *)
(***************************************************************************)
ForgeLeader ==
    \E p \in Ids : \E m \in BagToSet(inboxes[p]) :
        /\ m.message_type = "R1CommitHash"
        /\ m.body.btype = "Disperse"
        /\ m \notin tampered
        /\ Forge(p, [m EXCEPT !.body.data.leader = p])

SpoofNext ==
    \/ TamperProcessReady
    \/ TamperProcessR1CommitHash
    \/ TamperProcessR2Decommit
    \/ ForgeProcessR3Proof
    \/ ForgeLeader

\* a quorum of two with a peer that names the leader
SpoofSpec == DupInit /\ [][SpoofNext]_vars

\* some participant has an R2Decommit waiting
DecommitWaiting ==
    \E p \in Ids : \E m \in BagToSet(inboxes[p]) : m.message_type = "R2Decommit"

\* the scheduler that delivers an R2Decommit before any R1CommitHash
\* whenever one is waiting
ProcessR1CommitHashLast == ~DecommitWaiting /\ ProcessR1CommitHash

StashNext ==
    \/ ProcessReady
    \/ ProcessR1CommitHashLast
    \/ ProcessR2Decommit
    \/ ProcessR3Proof

StashSpec == Init /\ [][StashNext]_vars

(***************************************************************************)
(* The broadcast participants on their own: honest parties that broadcast  *)
(* and echo, and byzantine parties that send them any broadcast message    *)
(***************************************************************************)
\* enum BroadcastTag
BroadcastTags == {"AuxinfoR1CommitHash", "KeyGenR1CommitHash", "PresignR1Ciphertexts"}

\* the type of the message a protocol broadcasts under a tag
MessageTypeOf(tag) ==
    IF tag = "KeyGenR1CommitHash" THEN "R1CommitHash"
    ELSE IF tag = "AuxinfoR1CommitHash" THEN "AuxinfoR1CommitHash"
    ELSE "PresignRoundOneBroadcast"

InnerTypes == {MessageTypeOf(tag) : tag \in BroadcastTags}

Payloads == 0..MaxPayload

HonestIds == DOMAIN bquorum

\* the key generation system is not running
KeygenIdle ==
    /\ quorum = EmptyMap
    /\ inboxes = EmptyMap
    /\ outputs = EmptyMap
    /\ result = EmptyMap
    /\ delivered = EmptyMap
    /\ drawn = EmptyMap
    /\ redelivered = 0
    /\ tampered = {}

\* the quorum is the honest parties and the byzantine parties byz; every
\* honest party knows all parties of the quorum
BroadcastQuorum(byz) ==
    /\ KeygenIdle
    /\ byzantine = byz
    /\ bquorum = [p \in 1..MaxHonest |->
                    BroadcastParticipant(p, SeqOfSet(((1..MaxHonest) \cup byz) \ {p}))]
    /\ bnet = [p \in 1..MaxHonest |-> {}]
    /\ boutputs = [p \in 1..MaxHonest |-> {}]
    /\ baborted = [p \in 1..MaxHonest |-> {}]
    /\ bsent = {}
    /\ injected = 0
    /\ ProofsIdle

BroadcastInit == BroadcastQuorum({})

\* the messages of a list addressed to honest party p
ToHonest(msgs, p) == {msgs[i] : i \in {j \in DOMAIN msgs : msgs[j].to = p}}

\* what becomes of the outcome r of process_message at honest party p
BroadcastOutcome(p, m, net, r) ==
    /\ bquorum' = [bquorum EXCEPT ![p] = r.s]
    /\ bnet' = [q \in HonestIds |-> net[q] \cup ToHonest(r.msgs, q)]
    /\ boutputs' = [boutputs EXCEPT ![p] =
                       IF r.output = NoOutput THEN @ ELSE @ \cup {r.output}]
    /\ baborted' = [baborted EXCEPT ![p] =
                       IF r.kind = "Err" /\ r.err = "ProtocolError"
                       THEN @ \cup {<<m.body.tag, m.body.leader>>} ELSE @]

\* honest party p is given message m, which was waiting in net[p] or comes
\* straight from a byzantine party
BroadcastProcess(p, m, net) ==
    BroadcastOutcome(p, m, net, broadcast_process_message(bquorum[p], m))

\* honest party l broadcasts a payload under a tag, once per tag, as
\* Broadcast::broadcast does for the protocol that owns the participant
BroadcastSendOf(l, tag, data) ==
    /\ Cardinality(bsent) < MaxBroadcasts
    /\ \A sent \in bsent : ~(sent[1] = l /\ sent[2] = tag)
    /\ bsent' = bsent \cup {<<l, tag, data>>}
    /\ bnet' = [q \in HonestIds |->
                  bnet[q] \cup ToHonest(
                      broadcast_gen_round_one_msgs(bquorum[l], MessageTypeOf(tag),
                                                   data, Sid, tag), q)]
    /\ UNCHANGED <<bquorum, byzantine, boutputs, baborted, injected, kvars, zvars>>

BroadcastSend ==
    \E l \in HonestIds, tag \in BroadcastTags, data \in Payloads :
        BroadcastSendOf(l, tag, data)

\* an honest party processes a message sent to it by an honest party
BroadcastDeliver ==
    \E p \in HonestIds : \E m \in bnet[p] :
        /\ BroadcastProcess(p, m, [bnet EXCEPT ![p] = @ \ {m}])
        /\ UNCHANGED <<byzantine, bsent, injected, kvars, zvars>>

\* a byzantine party sends an honest party a Disperse or a Redisperse of its
\* choice, which the honest party processes: under the tag of a broadcast
\* in progress, with that broadcast's leader or itself as leader, and with
\* any inner message type and payload
BroadcastInject ==
    \E z \in byzantine, p \in HonestIds, type \in {"Disperse", "Redisperse"},
       leader \in {sent[1] : sent \in bsent} \cup byzantine,
       tag \in {sent[2] : sent \in bsent},
       inner \in InnerTypes, data \in Payloads :
        /\ injected < MaxInject
        /\ injected' = injected + 1
        /\ BroadcastProcess(p, Message(type, Sid, z, p,
                                       BroadcastData(leader, tag, inner, data)), bnet)
        /\ UNCHANGED <<byzantine, bsent, kvars, zvars>>

\* honest parties only
BroadcastNext ==
    \/ BroadcastSend
    \/ BroadcastDeliver

BroadcastSpec == BroadcastInit /\ [][BroadcastNext]_vars

\* one broadcast of an honest leader in a quorum with one byzantine party
ByzantineInit == BroadcastQuorum({MaxHonest + 1})

ByzantineSend ==
    \E l \in HonestIds, data \in Payloads :
        bsent = {} /\ BroadcastSendOf(l, "KeyGenR1CommitHash", data)

ByzantineNext ==
    \/ ByzantineSend
    \/ BroadcastDeliver
    \/ BroadcastInject

ByzantineSpec == ByzantineInit /\ [][ByzantineNext]_vars

(***************************************************************************)
(* The echo broadcast seen by one receiver at a time: the quorum of the    *)
(* test with one party byzantine, one honest broadcast, and a transport    *)
(* that may deliver a message of an honest party again; the message an     *)
(* honest party is given and what it returns are recorded                  *)
(***************************************************************************)
\* the quorum of QUORUM_SIZE parties, the last of them byzantine
EchoInit ==
    /\ KeygenIdle
    /\ byzantine = {QUORUM_SIZE}
    /\ bquorum = [p \in 1..(QUORUM_SIZE - 1) |->
                    BroadcastParticipant(p, SeqOfSet((1..QUORUM_SIZE) \ {p}))]
    /\ bnet = [p \in 1..(QUORUM_SIZE - 1) |-> {}]
    /\ boutputs = [p \in 1..(QUORUM_SIZE - 1) |-> {}]
    /\ baborted = [p \in 1..(QUORUM_SIZE - 1) |-> {}]
    /\ bsent = {}
    /\ injected = 0
    /\ ProofsIdle

\* the kind of the outcome of process_vote when the handler of message m
\* calls it, "none" when it does not
vote_kind(bp, m) ==
    IF m.message_type = "Redisperse" /\ m.body.leader = bp.id THEN "none"
    ELSE process_vote(bp, m.body, m.id, m.from).kind

\* what becomes of the outcome r of process_message at honest party p, and
\* the record of the call
EchoOutcome(p, m, net, r) ==
    /\ BroadcastOutcome(p, m, net, r)
    /\ handled' = [to |-> p, message |-> m, vote |-> vote_kind(bquorum[p], m),
                   kind |-> r.kind, err |-> r.err, msgs |-> r.msgs,
                   output |-> r.output]
    /\ echoes' = IF r.msgs = <<>> THEN echoes
                 ELSE echoes (+) SetToBag({<<p, m.id, m.body.tag>>})

EchoProcess(p, m, net) ==
    EchoOutcome(p, m, net, broadcast_process_message(bquorum[p], m))

\* an honest leader broadcasts a payload under KeyGenR1CommitHash
EchoSend ==
    /\ bsent = {}
    /\ \E l \in HonestIds, data \in Payloads :
        /\ bsent' = {<<l, "KeyGenR1CommitHash", data>>}
        /\ bnet' = [q \in HonestIds |->
                      bnet[q] \cup ToHonest(
                          broadcast_gen_round_one_msgs(
                              bquorum[l], MessageTypeOf("KeyGenR1CommitHash"),
                              data, Sid, "KeyGenR1CommitHash"), q)]
    /\ UNCHANGED <<bquorum, byzantine, boutputs, baborted, injected, kvars, zvars>>

\* an honest party processes a message sent to it by an honest party
EchoDeliver ==
    \E p \in HonestIds : \E m \in bnet[p] :
        /\ EchoProcess(p, m, [bnet EXCEPT ![p] = @ \ {m}])
        /\ UNCHANGED <<byzantine, bsent, injected, kvars, pimod, pilog, call>>

\* the message of honest voter v that gave honest party p its vote for
\* (tag, leader): the Disperse of the leader or the Redisperse of another
VoteMessage(p, tag, leader, v) ==
    Message(IF v = leader THEN "Disperse" ELSE "Redisperse", Sid, v, p,
            BroadcastData(leader, tag, MessageTypeOf(tag),
                          bquorum[p].votes[VotesKey(Sid, BroadcastIndex(tag, leader, v))]))

\* the transport delivers a message of an honest party a second time
EchoRedeliver ==
    \E p \in HonestIds, v \in HonestIds, sent \in bsent :
        /\ VotesKey(Sid, BroadcastIndex(sent[2], sent[1], v)) \in DOMAIN bquorum[p].votes
        /\ EchoProcess(p, VoteMessage(p, sent[2], sent[1], v), bnet)
        /\ UNCHANGED <<byzantine, bsent, injected, kvars, pimod, pilog, call>>

\* the byzantine party sends an honest party a Disperse or a Redisperse of
\* its choice under the tag of the broadcast, naming the honest leader, the
\* receiver or itself as leader, with any payload
EchoInject ==
    \E z \in byzantine, p \in HonestIds, type \in {"Disperse", "Redisperse"},
       tag \in {sent[2] : sent \in bsent}, data \in Payloads :
      \E leader \in {sent[1] : sent \in bsent} \cup byzantine \cup {p} :
        /\ injected < MaxInject
        /\ injected' = injected + 1
        /\ EchoProcess(p, Message(type, Sid, z, p,
                                  BroadcastData(leader, tag, MessageTypeOf(tag), data)),
                       bnet)
        /\ UNCHANGED <<byzantine, bsent, kvars, pimod, pilog, call>>

EchoNext ==
    \/ EchoSend
    \/ EchoDeliver
    \/ EchoRedeliver
    \/ EchoInject

EchoSpec == EchoInit /\ [][EchoNext]_vars

(***************************************************************************)
(* One broadcast whose messages are fixed when it starts: the Disperse     *)
(* messages of the leader and the Redisperse messages of the byzantine     *)
(* party; the transport delivers every message in any order and any number *)
(* of times                                                                *)
(***************************************************************************)
\* the quorum of the test and one byzantine party more
OrderInit ==
    /\ KeygenIdle
    /\ byzantine = {QUORUM_SIZE + 1}
    /\ bquorum = [p \in 1..QUORUM_SIZE |->
                    BroadcastParticipant(p, SeqOfSet((1..(QUORUM_SIZE + 1)) \ {p}))]
    /\ bnet = [p \in 1..QUORUM_SIZE |-> {}]
    /\ boutputs = [p \in 1..QUORUM_SIZE |-> {}]
    /\ baborted = [p \in 1..QUORUM_SIZE |-> {}]
    /\ bsent = {}
    /\ injected = 0
    /\ ProofsIdle

\* an honest leader broadcasts one payload; the byzantine party has a
\* Redisperse of its choice for every other honest party
OrderSendHonest ==
    /\ bsent = {}
    /\ \E l \in HonestIds, data \in Payloads, echo \in [HonestIds -> Payloads],
          z \in byzantine :
        /\ bsent' = {<<l, "KeyGenR1CommitHash", data>>}
        /\ bnet' = [q \in HonestIds |->
                      ToHonest(broadcast_gen_round_one_msgs(
                                   bquorum[l], MessageTypeOf("KeyGenR1CommitHash"),
                                   data, Sid, "KeyGenR1CommitHash"), q)
                      \cup (IF q = l THEN {}
                            ELSE {Message("Redisperse", Sid, z, q,
                                          BroadcastData(l, "KeyGenR1CommitHash",
                                                        MessageTypeOf("KeyGenR1CommitHash"),
                                                        echo[q]))})]
    /\ UNCHANGED <<bquorum, byzantine, boutputs, baborted, injected, kvars, zvars>>

\* the byzantine party leads the broadcast and sends every honest party a
\* Disperse with a payload of its choice
OrderSendByzantine ==
    /\ bsent = {}
    /\ \E z \in byzantine, data \in [HonestIds -> Payloads] :
        /\ bsent' = {<<z, "KeyGenR1CommitHash", data>>}
        /\ bnet' = [q \in HonestIds |->
                      {Message("Disperse", Sid, z, q,
                               BroadcastData(z, "KeyGenR1CommitHash",
                                             MessageTypeOf("KeyGenR1CommitHash"),
                                             data[q]))}]
    /\ UNCHANGED <<bquorum, byzantine, boutputs, baborted, injected, kvars, zvars>>

\* an honest party processes a message sent to it, for the first time or
\* again
OrderDeliver ==
    \E p \in HonestIds : \E m \in bnet[p] :
        /\ EchoProcess(p, m, bnet)
        /\ UNCHANGED <<byzantine, bsent, injected, kvars, pimod, pilog, call>>

OrderNext ==
    \/ OrderSendHonest
    \/ OrderSendByzantine
    \/ OrderDeliver

OrderSpec == OrderInit /\ [][OrderNext]_vars

(***************************************************************************)
(* The Paillier-Blum modulus proof on its own: a prover with a modulus     *)
(* N = p * q, a proof that may be altered on its way, and a verifier       *)
(***************************************************************************)
\* the primes congruent to 3 modulo 4 the prover's modulus is made of
BlumPrimes == {3, 7, 11}

\* the label the test starts its transcripts with
PiModLabel == "PiMod Test"

\* random_pimod_proof, the statement: a modulus and its factors
PiModInit ==
    /\ KeygenIdle
    /\ BroadcastIdle
    /\ pilog = NoPiLog
    /\ call = NoCall
    /\ handled = NoHandled
    /\ echoes = EmptyBag
    /\ \E p \in BlumPrimes, q \in BlumPrimes :
        /\ p # q
        /\ pimod = [phase |-> "input", p |-> p, q |-> q, N |-> p * q]

\* the values the loop of step 1 of prove can end with
JacobiMinusOne(N) == {w \in 1..(N - 1) : jacobi(w, N) = -1}

\* random_pimod_proof, the proof: prove with a w drawn at random
PiModProveStep ==
    /\ pimod.phase = "input"
    /\ \E w \in JacobiMinusOne(pimod.N) :
        pimod' = [phase |-> "proved", p |-> pimod.p, q |-> pimod.q, N |-> pimod.N,
                  result |-> PiModProve(pimod.N, pimod.p, pimod.q,
                                        Transcript(PiModLabel), w),
                  flipped |-> <<>>, resized |-> "no"]
    /\ UNCHANGED <<kvars, bvars, pilog, call, handled, echoes>>

\* x with bit j flipped
FlipBit(x, j) == Xor(x, 2 ^ j)

ProofFields == {"x", "a", "b", "z", "y"}

\* the proof with bit j of w flipped
FlipW(proof, j) == [proof EXCEPT !.w = FlipBit(@, j)]

\* the proof with bit j of a field of element i flipped
FlipElement(proof, field, i, j) ==
    [proof EXCEPT !.elements[i][field] = FlipBit(@, j)]

\* one bit of the proof is flipped
PiModFlip ==
    /\ pimod.phase = "proved"
    /\ pimod.result.ok
    /\ pimod.flipped = <<>>
    /\ pimod.resized = "no"
    /\ \E j \in 0..MaxFlipBit :
        \/ pimod' = [pimod EXCEPT !.result = FlipW(@, j),
                                  !.flipped = <<"w", 0, j>>]
        \/ \E field \in ProofFields, i \in 1..SOUNDNESS_PARAMETER :
            pimod' = [pimod EXCEPT !.result = FlipElement(@, field, i, j),
                                   !.flipped = <<field, i, j>>]
    /\ UNCHANGED <<kvars, bvars, pilog, call, handled, echoes>>

\* the short proof of the test: the last element is removed
short_proof(proof) ==
    [proof EXCEPT !.elements = SubSeq(@, 1, SOUNDNESS_PARAMETER - 1)]

\* the long proof of the test: the elements, cycled, twice as many
long_proof(proof) ==
    [proof EXCEPT !.elements =
        [k \in 1..(2 * SOUNDNESS_PARAMETER) |-> @[((k - 1) % Len(@)) + 1]]]

PiModShorten ==
    /\ pimod.phase = "proved"
    /\ pimod.result.ok
    /\ pimod.resized = "no"
    /\ pimod' = [pimod EXCEPT !.result = short_proof(@), !.resized = "short"]
    /\ UNCHANGED <<kvars, bvars, pilog, call, handled, echoes>>

PiModLengthen ==
    /\ pimod.phase = "proved"
    /\ pimod.result.ok
    /\ pimod.resized = "no"
    /\ pimod' = [pimod EXCEPT !.result = long_proof(@), !.resized = "long"]
    /\ UNCHANGED <<kvars, bvars, pilog, call, handled, echoes>>

\* the moduli the verifier may be given: the prover's, an even one, and the
\* prime factors
VerifierModuli(N, p, q) == {N, N + 1, p, q}

\* verify over a transcript started as the prover's
PiModVerifyStep ==
    /\ pimod.phase = "proved"
    /\ pimod.result.ok
    /\ \E N \in VerifierModuli(pimod.N, pimod.p, pimod.q) :
        pimod' = [phase |-> "verified", p |-> pimod.p, q |-> pimod.q,
                  N |-> pimod.N, result |-> pimod.result,
                  flipped |-> pimod.flipped, resized |-> pimod.resized,
                  verifier_N |-> N,
                  verdict |-> PiModVerify(pimod.result, N, Transcript(PiModLabel))]
    /\ UNCHANGED <<kvars, bvars, pilog, call, handled, echoes>>

PiModNext ==
    \/ PiModProveStep
    \/ PiModFlip
    \/ PiModShorten
    \/ PiModLengthen
    \/ PiModVerifyStep

PiModSpec == PiModInit /\ [][PiModNext]_vars

(***************************************************************************)
(* The range proof on its own: a prover with a plaintext, its encryption   *)
(* and its curve point, and a verifier                                     *)
(***************************************************************************)
\* the Paillier modulus of the prover and the ring-Pedersen scheme of the
\* verifier: 77 = 7 * 11, and 35 = 5 * 7 with t = 2^2 and s = t^5
PiLogSetup ==
    [prover_encryption_key |-> 77,
     ring_pedersen |-> [N |-> 35, s |-> 9, t |-> 4]]

\* the label the test starts its transcripts with
PiLogLabel == "PiLogProof Test"

\* the nonces the encryptions draw, units modulo the Paillier modulus
Nonces == {2, 3}

\* the randomness the commitments draw
CommitRandomness == {-1, 2}

\* test_paillier_log_proof: x_small and x_large
SmallPlaintexts == plusminus_by_size(ELL)

LargePlaintexts == plusminus_by_size_with_minimum(ELL + EPSILON + 1, ELL + EPSILON)

\* random_paillier_log_proof, the common input made from x and its nonce
PiLogInput(x, nonce) ==
    [ciphertext |-> encrypt_with_nonce(PiLogSetup.prover_encryption_key, x, nonce),
     dlog_commit |-> multiply_by_scalar(GENERATOR, x),
     ring_pedersen |-> PiLogSetup.ring_pedersen,
     prover_encryption_key |-> PiLogSetup.prover_encryption_key,
     generator |-> GENERATOR]

\* random_paillier_log_proof, the statement: x, encrypted and multiplied
PiLogInit ==
    /\ KeygenIdle
    /\ BroadcastIdle
    /\ pimod = NoPiMod
    /\ call = NoCall
    /\ handled = NoHandled
    /\ echoes = EmptyBag
    /\ \E x \in SmallPlaintexts \cup LargePlaintexts, nonce \in Nonces :
        pilog = [phase |-> "input",
                 secret |-> [plaintext |-> x, nonce |-> nonce],
                 input |-> PiLogInput(x, nonce)]

\* random_paillier_log_proof, the proof: prove with the values drawn
PiLogProveStep ==
    /\ pilog.phase = "input"
    /\ \E mask \in plusminus_by_size(ELL + EPSILON), mask_nonce \in Nonces,
          mu \in CommitRandomness, gamma \in CommitRandomness :
        pilog' = [phase |-> "proved", secret |-> pilog.secret,
                  input |-> pilog.input, mask |-> mask,
                  proof |-> PiLogProve(pilog.input, pilog.secret,
                                       Transcript(PiLogLabel),
                                       [mask |-> mask, mask_nonce |-> mask_nonce,
                                        plaintext_commit_randomness |-> mu,
                                        mask_commit_randomness |-> gamma])]
    /\ UNCHANGED <<kvars, bvars, pimod, call, handled, echoes>>

\* random_paillier_log_proof, the end: verify over a fresh transcript
PiLogVerifyStep ==
    /\ pilog.phase = "proved"
    /\ pilog' = [phase |-> "verified", secret |-> pilog.secret,
                 input |-> pilog.input, mask |-> pilog.mask,
                 proof |-> pilog.proof,
                 failed |-> NoFailure,
                 verdict |-> PiLogVerify(pilog.proof, pilog.input,
                                         Transcript(PiLogLabel), NoFailure)]
    /\ UNCHANGED <<kvars, bvars, pimod, call, handled, echoes>>

PiLogNext ==
    \/ PiLogProveStep
    \/ PiLogVerifyStep

PiLogSpec == PiLogInit /\ [][PiLogNext]_vars

\* the fields of a proof a dishonest prover may change after proving
PiLogFields == {"challenge", "plaintext_response", "nonce_response",
                "plaintext_commit_response"}

\* the proof with one field changed: the challenge and the two responses in
\* the integers by one, the nonce response to another unit modulo the
\* Paillier modulus
altered_proof(proof, input, field) ==
    CASE field = "challenge" ->
            [proof EXCEPT !.challenge = @ + 1]
      [] field = "plaintext_response" ->
            [proof EXCEPT !.plaintext_response = @ + 1]
      [] field = "nonce_response" ->
            [proof EXCEPT !.nonce_response = (2 * @) % input.prover_encryption_key]
      [] field = "plaintext_commit_response" ->
            [proof EXCEPT !.plaintext_commit_response = @ + 1]

\* a statement whose curve point is not the one of the encrypted plaintext:
\* the prover claims X = g * (x + 1) for the ciphertext of an x in range
PiLogMisstate ==
    /\ pilog.phase = "input"
    /\ within_bound_by_size(pilog.secret.plaintext, ELL)
    /\ pilog.input.dlog_commit = multiply_by_scalar(GENERATOR, pilog.secret.plaintext)
    /\ pilog' = [pilog EXCEPT !.input.dlog_commit =
                    multiply_by_scalar(GENERATOR, pilog.secret.plaintext + 1)]
    /\ UNCHANGED <<kvars, bvars, pimod, call, handled, echoes>>

\* the computations that return an error in one call: none or one
Failures == {NoFailure} \cup {{step} : step \in FallibleSteps}

\* verify, over a fresh transcript, of a proof that verifies with one field
\* changed, in a call where none or one of the computations returns an error
PiLogVerifyAltered ==
    /\ pilog.phase = "proved"
    /\ PiLogVerify(pilog.proof, pilog.input, Transcript(PiLogLabel),
                   NoFailure) = "Ok"
    /\ \E field \in PiLogFields, failed \in Failures :
        LET proof == altered_proof(pilog.proof, pilog.input, field)
        IN pilog' = [phase |-> "verified", secret |-> pilog.secret,
                     input |-> pilog.input, mask |-> pilog.mask,
                     proof |-> proof, altered |-> field,
                     failed |-> failed,
                     verdict |-> PiLogVerify(proof, pilog.input,
                                             Transcript(PiLogLabel), failed)]
    /\ UNCHANGED <<kvars, bvars, pimod, call, handled, echoes>>

\* verify, over a fresh transcript, in a call where one of its computations
\* returns an error
PiLogVerifyFailing ==
    /\ pilog.phase = "proved"
    /\ \E step \in FallibleSteps :
        pilog' = [phase |-> "verified", secret |-> pilog.secret,
                  input |-> pilog.input, mask |-> pilog.mask,
                  proof |-> pilog.proof,
                  failed |-> {step},
                  verdict |-> PiLogVerify(pilog.proof, pilog.input,
                                          Transcript(PiLogLabel), {step})]
    /\ UNCHANGED <<kvars, bvars, pimod, call, handled, echoes>>

PiLogAlteredNext ==
    \/ PiLogMisstate
    \/ PiLogProveStep
    \/ PiLogVerifyStep
    \/ PiLogVerifyAltered
    \/ PiLogVerifyFailing

\* the range proof with dishonest provers
PiLogAlteredSpec == PiLogInit /\ [][PiLogAlteredNext]_vars

(***************************************************************************)
(* The functions of zkp/pimod.rs on their own: the arguments of a call     *)
(* are drawn, then the function is applied to them                         *)
(***************************************************************************)
\* the largest modulus a function is called with
MaxModulus == 7

\* the moduli of the tests of chinese_remainder_theorem: p, q and their
\* multiples
CrtModuli == 2..MaxModulus

\* the integers of the tests: in range, equal to the modulus, above it, and
\* negative
CrtIntegers == (-MaxModulus)..(MaxModulus + 1)

\* the arguments of a call of chinese_remainder_theorem
CrtInput ==
    \E a1 \in CrtIntegers, a2 \in CrtIntegers, p \in CrtModuli, q \in CrtModuli :
        call = [phase |-> "input", name |-> "chinese_remainder_theorem",
                a1 |-> a1, a2 |-> a2, p |-> p, q |-> q]

\* the arguments of a call of square_roots_mod_prime: a prime congruent to
\* 3 modulo 4 and a value below it
SquareRootsInput ==
    \E p \in BlumPrimes : \E a \in 0..(p - 1) :
        call = [phase |-> "input", name |-> "square_roots_mod_prime",
                a |-> a, p |-> p]

\* the arguments of one iteration of the loop of prove: the factors of a
\* modulus, a w of Jacobi symbol -1 and a challenge below the modulus
ProveElementInput ==
    \E p \in BlumPrimes, q \in BlumPrimes :
        /\ p # q
        /\ \E w \in JacobiMinusOne(p * q), y \in 0..(p * q - 1) :
            call = [phase |-> "input", name |-> "prove_element",
                    p |-> p, q |-> q, w |-> w, y |-> y]

CallInit ==
    /\ KeygenIdle
    /\ BroadcastIdle
    /\ pimod = NoPiMod
    /\ pilog = NoPiLog
    /\ handled = NoHandled
    /\ echoes = EmptyBag
    /\ \/ CrtInput
       \/ SquareRootsInput
       \/ ProveElementInput

\* chinese_remainder_theorem is called
CallChineseRemainderTheorem ==
    /\ call.phase = "input"
    /\ call.name = "chinese_remainder_theorem"
    /\ call' = [call EXCEPT !.phase = "returned"]
                 @@ [result |-> chinese_remainder_theorem(call.a1, call.a2,
                                                          call.p, call.q)]
    /\ UNCHANGED <<kvars, bvars, pimod, pilog, handled, echoes>>

\* test_square_roots_mod_prime: square_roots_mod_prime is called
CallSquareRootsModPrime ==
    /\ call.phase = "input"
    /\ call.name = "square_roots_mod_prime"
    /\ call' = [call EXCEPT !.phase = "returned"]
                 @@ [result |-> square_roots_mod_prime(call.a, call.p)]
    /\ UNCHANGED <<kvars, bvars, pimod, pilog, handled, echoes>>

\* one iteration of the loop of prove is run
CallProveElement ==
    /\ call.phase = "input"
    /\ call.name = "prove_element"
    /\ call' = [call EXCEPT !.phase = "returned"]
                 @@ [found |-> combination_roots(call.w, call.y, call.p, call.q),
                     result |-> prove_element(call.p * call.q, call.p, call.q,
                                              call.w, call.y)]
    /\ UNCHANGED <<kvars, bvars, pimod, pilog, handled, echoes>>

CallNext ==
    \/ CallChineseRemainderTheorem
    \/ CallSquareRootsModPrime
    \/ CallProveElement

CallSpec == CallInit /\ [][CallNext]_vars

(***************************************************************************)
(* Properties of key generation                                            *)
(***************************************************************************)
Terminated(p) == quorum[p].status = "TerminatedSuccessfully"

AllTerminated == \A p \in Ids : Terminated(p)

\* every emitted message has been processed by its recipient
AllDelivered == \A p \in Ids : inboxes[p] = EmptyBag

\* a step in which participant p was given a message of its inbox
Processes(p) == BagCardinality(inboxes'[p]) < BagCardinality(inboxes[p])

\* the public key shares an Output lists for an id
SharesFor(o, id) ==
    {o.public_key_shares[i] : i \in {j \in DOMAIN o.public_key_shares :
                                        o.public_key_shares[j].participant = id}}

\* bit i of a natural
Bit(x, i) == (x \div (2 ^ i)) % 2

\* the exclusive or of the values f[j], j in S, bit by bit: bit i is set when
\* an odd number of the values has it set
RECURSIVE ParityBits(_, _, _)
ParityBits(f, S, i) ==
    IF \A j \in S : f[j] < 2 ^ i THEN 0
    ELSE (2 ^ i) * (Cardinality({j \in S : Bit(f[j], i) = 1}) % 2)
         + ParityBits(f, S, i + 1)

\* the loop of the test for the quorum of the test (keygen 698-714) with a
\* scheduler under which every emitted message is eventually delivered. The
\* loop can take a step exactly while some inbox holds a message, and every
\* step that changes the state is a step of the loop, so weak fairness of
\* Next, WF_vars(Next), reads: infinitely often every inbox is empty, or
\* infinitely often a step is taken
LiveSpec ==
    /\ InitQuorum(QUORUM_SIZE)
    /\ [][Next]_vars
    /\ ([]<>AllDelivered \/ []<><<TRUE>>_vars)

C2_PublicKeyShareAgreement ==
    AllTerminated =>
        \A p \in Ids, q \in Ids, id \in Ids :
            \A o \in Range(outputs[p]), o2 \in Range(outputs[q]) :
                /\ Cardinality(SharesFor(o, id)) = 1
                /\ SharesFor(o, id) = SharesFor(o2, id)
                /\ Len(o.public_key_shares) = Cardinality(Ids)

C2_Witness ==
    /\ AllTerminated
    /\ \A p \in Ids : Len(outputs[p]) = 1
    /\ \E p \in Ids, q \in Ids :
        outputs[p][1].public_key_shares # outputs[q][1].public_key_shares

\* C3: the rid is the same in the Outputs of all participants
C3_RidAgreement ==
    \A p \in Ids, q \in Ids :
        \A o \in Range(outputs[p]), o2 \in Range(outputs[q]) : o.rid = o2.rid

C3_Witness ==
    /\ \A p \in Ids : Len(outputs[p]) = 1
    /\ \E p \in Ids, q \in Ids : drawn[p].rid # drawn[q].rid

\* the rids of the decommitments participant p holds, by sender
AcceptedRids(p) == [j \in Ids |-> retrieve(quorum[p], "Decommit", j).rid]

\* C4: the global rid a participant stores in round three, and returns in its
\* Output, is the exclusive or of the rids of the decommitments of all
\* participants, each taken once
C4_GlobalRidIsXor ==
    \A p \in Ids :
        contains(quorum[p], "GlobalRid", p) =>
            /\ \A j \in Ids : contains(quorum[p], "Decommit", j)
            /\ retrieve(quorum[p], "GlobalRid", p) = ParityBits(AcceptedRids(p), Ids, 0)
            /\ \A o \in Range(outputs[p]) :
                   o.rid = ParityBits(AcceptedRids(p), Ids, 0)

C4_Witness ==
    \E p \in Ids, q \in Ids :
        /\ p # q
        /\ Len(outputs[p]) = 1
        /\ outputs[p][1].rid # 0
        /\ Len(outputs[q]) = 0
        /\ contains(quorum[q], "GlobalRid", q)

\* C5: in every Output the public key share listed for the participant's own
\* id is GENERATOR multiplied by the private key share of that Output
C5_OwnKeyPair ==
    \A p \in Ids : \A o \in Range(outputs[p]) :
        SharesFor(o, p) = {KeySharePublic(p, PointMul(GENERATOR, o.private_key_share))}

C5_Witness ==
    \E p \in Ids, q \in Ids :
        /\ Len(outputs[p]) = 1 /\ Len(outputs[q]) = 1
        /\ outputs[p][1].private_key_share # outputs[q][1].private_key_share

\* the Output of participant p as a function of the random choices alone
ExpectedOutput(p) ==
    LET ids == SeqOfSet(Ids \ {p}) \o <<p>>
    IN Output([i \in 1..Len(ids) |->
                  KeySharePublic(ids[i], PointMul(GENERATOR, drawn[ids[i]].sk))],
              drawn[p].sk,
              ParityBits([j \in Ids |-> drawn[j].rid], Ids, 0))

\* C6: for fixed random choices of the participants, every delivery order
\* that runs to completion yields the same Output at a participant
C6_InterleavingIndependence ==
    \A p \in Ids : \A o \in Range(outputs[p]) : o = ExpectedOutput(p)

\* one participant received the proof of round three before the decommitment
\* of round two, stashed it and terminated on the decommitment; another was
\* given its messages in the order of the rounds
C6_Witness ==
    /\ AllTerminated
    /\ \A p \in Ids : Len(outputs[p]) = 1
    /\ \E p \in Ids : result[p].message_type = "R2Decommit"
    /\ \E p \in Ids : result[p].message_type = "R3Proof"

\* C7: a terminated participant answers every further message with
\* ProtocolAlreadyTerminated and changes nothing
C7_AlreadyTerminated ==
    [][\A p \in Ids :
          (Terminated(p) /\ Processes(p)) =>
              /\ result'[p].kind = "Err"
              /\ result'[p].err = "ProtocolAlreadyTerminated"
              /\ quorum'[p] = quorum[p]
              /\ outputs'[p] = outputs[p]]_vars

C7_Witness ==
    \E p \in Ids :
        /\ Terminated(p)
        /\ result[p].err = "ProtocolAlreadyTerminated"
        /\ result[p].message_type = "Ready"

StatusRank(status) ==
    IF status = "NotReady" THEN 0
    ELSE IF status = "Initialized" THEN 1
    ELSE 2

\* C8: the status of a participant never moves backwards, and
\* TerminatedSuccessfully is never left
C8_StatusMonotonic ==
    [][\A p \in Ids :
          /\ StatusRank(quorum'[p].status) >= StatusRank(quorum[p].status)
          /\ Terminated(p) => quorum'[p].status = "TerminatedSuccessfully"]_vars

C8_Witness ==
    \E p \in Ids :
        /\ Terminated(p)
        /\ result[p].kind = "Err"
        /\ inboxes[p] = EmptyBag

\* every honest party other than the leader has processed the leader's Disperse
DisperseDelivered(l, tag) ==
    \A p \in HonestIds \ {l} :
        VotesKey(Sid, BroadcastIndex(tag, l, l)) \in DOMAIN bquorum[p].votes

\* the outputs honest party p produced for a tag and a leader
OutputsFor(p, tag, l) == {o \in boutputs[p] : o.tag = tag /\ o.msg.from = l}

\* C9: for a broadcast of an honest leader whose Disperse every honest party
\* has processed, no honest party outputs while another aborts, and the
\* outputs of two honest parties carry the same payload and inner message type
C9_BroadcastAgreement ==
    \A sent \in bsent :
        LET l == sent[1]
            tag == sent[2]
        IN DisperseDelivered(l, tag) =>
            \A p \in HonestIds \ {l}, q \in HonestIds \ {l} :
                /\ ~(OutputsFor(p, tag, l) # {} /\ <<tag, l>> \in baborted[q])
                /\ \A o \in OutputsFor(p, tag, l), o2 \in OutputsFor(q, tag, l) :
                       /\ o.msg.body = o2.msg.body
                       /\ o.msg.message_type = o2.msg.message_type

VotesFor(p, l) ==
    LET bp == quorum[p].broadcast_participant
        key(oid) == VotesKey(Sid, BroadcastIndex("KeyGenR1CommitHash", l, oid))
    IN [oid \in {o \in Range(bp.other_participant_ids) : key(o) \in DOMAIN bp.votes}
           |-> bp.votes[key(oid)]]

\* participant p holds a vote of every other id for leader l, and the votes
\* are not all the same
VotesDisagree(p, l) ==
    /\ DOMAIN VotesFor(p, l) = Ids \ {p}
    /\ Cardinality(Range(VotesFor(p, l))) > 1

\* C11: when the votes a participant holds for a leader are complete and not
\* all equal, the call that completed them returned ProtocolError and no
\* Output, the broadcast of that leader is not marked as completed and no
\* Commit is stored for that leader
C11_DisagreementAborts ==
    [][\A p \in Ids, l \in Ids :
          VotesDisagree(p, l)' =>
              /\ ~contains(quorum'[p], "Commit", l)
              /\ l \notin quorum'[p].broadcast_participant.status
              /\ ~VotesDisagree(p, l) =>
                    /\ result'[p].kind = "Err"
                    /\ result'[p].err = "ProtocolError"
                    /\ outputs'[p] = outputs[p]]_vars

\* the modified Disperse of a leader made the votes of a participant
\* disagree, and its process_message returned ProtocolError
C11_Witness ==
    \E p \in Ids, l \in Ids :
        /\ VotesDisagree(p, l)
        /\ tampered # {}
        /\ result[p].kind = "Err"
        /\ result[p].err = "ProtocolError"
        /\ result[p].message_type = "R1CommitHash"

\* the message participant p is given in a step
Given(p) == CHOOSE m \in delivered'[p] \ delivered[p] : TRUE

\* the stash of participant p holds a message of a type
Stashed(p, type) == \E i \in DOMAIN quorum[p].stash : quorum[p].stash[i].message_type = type

C12_WitnessStashed ==
    \E p \in Ids :
        /\ Cardinality(Ids) = QUORUM_SIZE
        /\ is_ready(quorum[p])
        /\ Stashed(p, "R2Decommit")
        /\ result[p].kind = "Incomplete"
        /\ result[p].message_type = "R2Decommit"

ProcessesDuplicate(p) ==
    /\ Processes(p)
    /\ delivered'[p] = delivered[p]

\* the Outputs participant p has returned when every message of a run without
\* second deliveries is processed: its one Output
DuplicateFreeOutputs(p) == <<ExpectedOutput(p)>>

C13_WitnessTerminated ==
    /\ ~FullQuorum
    /\ redelivered = MaxRedeliver
    /\ AllDelivered
    /\ AllTerminated
    /\ \A p \in Ids : Len(outputs[p]) = 1 /\ result[p].kind = "Terminated"

\* without second deliveries the Outputs are those DuplicateFreeOutputs names
DuplicateFreeRun ==
    [][AllDelivered' =>
          \A p \in Ids : outputs'[p] = DuplicateFreeOutputs(p)']_vars

\* C14: a participant that is not ready answers every message that is not
\* Ready with Incomplete, only appends it to its stash, emits no message and
\* returns no Output; a Ready message makes it ready
C14_ReadyGating ==
    [][\A p \in Ids :
          (Processes(p) /\ ~is_ready(quorum[p])) =>
              IF Given(p).message_type = "Ready"
              THEN is_ready(quorum'[p])
              ELSE /\ result'[p].kind = "Incomplete"
                   /\ quorum'[p] = stash_message(quorum[p], Given(p))
                   /\ outputs'[p] = outputs[p]
                   /\ \A q \in Ids \ {p} : inboxes'[q] = inboxes[q]]_vars

\* a participant that is not ready has stashed the commitment broadcast of
\* another participant
C14_Witness ==
    \E p \in Ids :
        /\ ~is_ready(quorum[p])
        /\ result[p].kind = "Incomplete"
        /\ result[p].message_type = "R1CommitHash"
        /\ Len(quorum[p].stash) > 0
        /\ quorum[p].local_storage = EmptyMap

\* C15: the step in which a participant reaches TerminatedSuccessfully
\* returns one Output whose private key share is the PrivateKeyshare entry
\* the participant held for its id, and a terminated participant holds no
\* PrivateKeyshare entry for its id
C15_PrivateKeyShareRemoved ==
    [][\A p \in Ids :
          /\ Terminated(p)' => ~contains(quorum'[p], "PrivateKeyshare", p)
          /\ (Terminated(p)' /\ ~Terminated(p)) =>
                /\ contains(quorum[p], "PrivateKeyshare", p)
                /\ Len(outputs'[p]) = Len(outputs[p]) + 1
                /\ outputs'[p][Len(outputs'[p])].private_key_share
                       = retrieve(quorum[p], "PrivateKeyshare", p)]_vars

\* a participant has terminated and returned a private key share that is not
\* the one of another terminated participant
C15_Witness ==
    \E p \in Ids, q \in Ids :
        /\ Terminated(p) /\ Terminated(q)
        /\ Len(outputs[p]) = 1 /\ Len(outputs[q]) = 1
        /\ outputs[p][1].private_key_share = drawn[p].sk
        /\ drawn[p].sk # drawn[q].sk
        /\ contains(quorum[p], "SchnorrPrecom", p)

(***************************************************************************)
(* Properties of the Paillier-Blum modulus proof                           *)
(***************************************************************************)
\* the statement is a Blum modulus as DecryptionKey::new makes them
BlumModulus(N, p, q) ==
    /\ N = p * q /\ p # q
    /\ is_prime(p) /\ is_prime(q)
    /\ p % 4 = 3 /\ q % 4 = 3
    /\ extended_gcd(N, (p - 1) * (q - 1)).gcd = 1

PiModVerified == pimod.phase = "verified"

\* the proof the verifier was given is the one prove returned
PiModUntouched == pimod.flipped = <<>> /\ pimod.resized = "no"

\* C16: for a Blum modulus, a proof returned by prove and verified for the
\* same modulus over a transcript started alike is accepted
C16_PiModRoundTrip ==
    (/\ PiModVerified
     /\ PiModUntouched
     /\ pimod.verifier_N = pimod.N
     /\ BlumModulus(pimod.N, pimod.p, pimod.q))
        => pimod.verdict = "Ok"

\* proofs for two moduli, made of the same primes or not, were accepted
C16_Witness ==
    /\ PiModVerified
    /\ PiModUntouched
    /\ pimod.verifier_N = pimod.N
    /\ pimod.verdict = "Ok"
    /\ pimod.p > pimod.q
    /\ pimod.result.elements[1].a # pimod.result.elements[2].a
    /\ pimod.result.elements[1].b = 1

\* C17: verify fails when the proof does not hold exactly
\* SOUNDNESS_PARAMETER elements, when N is even and when N is prime,
\* whatever the proof holds otherwise
C17_PiModRejects ==
    (/\ PiModVerified
     /\ \/ Len(pimod.result.elements) # SOUNDNESS_PARAMETER
        \/ pimod.verifier_N % 2 = 0
        \/ is_prime(pimod.verifier_N))
        => pimod.verdict = "FailedToVerifyProof"

\* a proof whose elements all pass the checks was refused for being one
\* element short
C17_Witness ==
    /\ PiModVerified
    /\ pimod.flipped = <<>>
    /\ pimod.resized = "short"
    /\ Len(pimod.result.elements) = SOUNDNESS_PARAMETER - 1
    /\ pimod.verifier_N = pimod.N
    /\ pimod.verdict = "FailedToVerifyProof"
    /\ verify_any_length(pimod.result, pimod.N, Transcript(PiModLabel)) = "Ok"

\* the verifier was given, for the prover's modulus, a proof of the right
\* length with one bit flipped
PiModFlipVerified ==
    /\ PiModVerified
    /\ pimod.flipped # <<>>
    /\ pimod.resized = "no"
    /\ pimod.verifier_N = pimod.N

\* C18 as stated: a proof that verifies no longer verifies once one bit of
\* w or of the x, a, b, y or z of an element is flipped
C18_PiModTamperDetected ==
    PiModFlipVerified => pimod.verdict = "FailedToVerifyProof"

\* the x of the flipped element as the verifier was given it, and as it was
FlippedX == pimod.result.elements[pimod.flipped[2]].x

OriginalX == FlipBit(FlippedX, pimod.flipped[3])

\* C18, amended: a flipped bit of w or of the a, b, y or z of an element
\* makes verify fail; a flipped bit of the x of an element makes verify fail
\* unless the fourth power of x modulo N is the same as before
C18_PiModTamperDetectedButFourthRoots ==
    PiModFlipVerified =>
        IF pimod.flipped[1] = "x"
        THEN (pimod.verdict = "Ok")
                 <=> (modpow(FlippedX, 4, pimod.N) = modpow(OriginalX, 4, pimod.N))
        ELSE pimod.verdict = "FailedToVerifyProof"

\* a flip of each kind was refused: bit 1 of an a that was correct, and a
\* bit of x that changes its fourth power
C18_Witness ==
    /\ PiModFlipVerified
    /\ pimod.verdict = "FailedToVerifyProof"
    /\ \/ pimod.flipped[1] = "a" /\ pimod.flipped[3] = 1
       \/ pimod.flipped[1] = "x"

(***************************************************************************)
(* Properties of the range proof                                           *)
(***************************************************************************)
\* a proof has been made and verified
PiLogVerified == pilog.phase = "verified"

\* the plaintext of the statement is in range: |x| <= 2^ELL
PlaintextInRange ==
    within_bound_by_size(pilog.secret.plaintext, ELL)

\* the plaintext is out of the range the verifier allows
PlaintextTooLarge == pilog.secret.plaintext \in LargePlaintexts

\* the response alpha + e * x the proof was made with
ResponseOf(r) == r.mask + r.proof.challenge * r.secret.plaintext

\* C19: every proof made for a plaintext x with |x| <= 2^ELL, whatever the
\* mask and the challenge drawn, is accepted by verify over a transcript
\* started as the prover's
C19_PiLogRoundTrip ==
    (PiLogVerified /\ PlaintextInRange) => pilog.verdict = "Ok"

\* C19, as the code has it: a proof made for a plaintext x with
\* |x| <= 2^ELL is accepted exactly when alpha + e * x is within
\* +-2^(ELL+EPSILON), which it is whenever the mask alpha leaves room for
\* e * x, that is |alpha| <= 2^(ELL+EPSILON) - q * 2^ELL
C19_PiLogRoundTripWithinBound ==
    (PiLogVerified /\ PlaintextInRange) =>
        /\ pilog.verdict = "Ok"
            <=> within_bound_by_size(ResponseOf(pilog), ELL + EPSILON)
        /\ (within_bound_by_size(pilog.mask, ELL + EPSILON)
            /\ (pilog.mask <= bound_by_size(ELL + EPSILON)
                                - GroupOrder * bound_by_size(ELL))
            /\ (pilog.mask >= GroupOrder * bound_by_size(ELL)
                                - bound_by_size(ELL + EPSILON)))
             => pilog.verdict = "Ok"

\* a proof for a plaintext in range, with a challenge and a plaintext other
\* than zero, was accepted
C19_Witness ==
    /\ PiLogVerified
    /\ PlaintextInRange
    /\ pilog.secret.plaintext # 0
    /\ pilog.proof.challenge # 0
    /\ pilog.mask # 0
    /\ pilog.verdict = "Ok"

\* C20: for every plaintext x with |x| in (2^(ELL+EPSILON),
\* 2^(ELL+EPSILON+1)], whatever the mask and the challenge drawn, proving
\* followed by verifying fails
C20_PiLogRangeRejection ==
    (PiLogVerified /\ PlaintextTooLarge) =>
        pilog.verdict = "FailedToVerifyProof"

\* C20, as the code has it: for such a plaintext verify fails whenever the
\* challenge is at least 2 in absolute value; with a challenge of 0, 1 or -1
\* it fails exactly when alpha + e * x is out of +-2^(ELL+EPSILON)
C20_PiLogRangeRejectionButSmallChallenge ==
    (PiLogVerified /\ PlaintextTooLarge) =>
        /\ (pilog.proof.challenge >= 2 \/ pilog.proof.challenge <= -2)
            => pilog.verdict = "FailedToVerifyProof"
        /\ pilog.verdict = "FailedToVerifyProof"
            <=> ~within_bound_by_size(ResponseOf(pilog), ELL + EPSILON)

\* a proof for a plaintext out of range, made with a challenge of at least 2
\* in absolute value, was rejected
C20_Witness ==
    /\ PiLogVerified
    /\ PlaintextTooLarge
    /\ (pilog.proof.challenge >= 2 \/ pilog.proof.challenge <= -2)
    /\ pilog.verdict = "FailedToVerifyProof"

(***************************************************************************)
(* Properties of the functions of zkp/pimod.rs                             *)
(***************************************************************************)
\* the call of a function has returned
Returned(name) == call.phase = "returned" /\ call.name = name

\* p and q have no common divisor above 1
Coprime(p, q) == \A d \in 2..p : ~(p % d = 0 /\ q % d = 0)

\* C21: chinese_remainder_theorem(a1, a2, p, q) returns Ok(x) with
\* 0 <= x < p*q, x mod p = a1 and x mod q = a2 when 0 <= a1 < p,
\* 0 <= a2 < q and p, q are coprime; it returns CouldNotGenerateProof when
\* a1 or a2 is out of range or p and q are not coprime
C21_ChineseRemainderTheorem ==
    Returned("chinese_remainder_theorem") =>
        IF /\ call.a1 >= 0 /\ call.a1 < call.p
           /\ call.a2 >= 0 /\ call.a2 < call.q
           /\ Coprime(call.p, call.q)
        THEN /\ call.result.ok
             /\ call.result.x >= 0
             /\ call.result.x < call.p * call.q
             /\ call.result.x % call.p = call.a1
             /\ call.result.x % call.q = call.a2
        ELSE call.result = CouldNotGenerateProof

\* the call returned the solution of two congruences that differ
C21_Witness ==
    /\ Returned("chinese_remainder_theorem")
    /\ call.result.ok
    /\ call.a1 > 0
    /\ call.a2 > call.a1
    /\ call.result.x > call.q

\* C22: for a prime p congruent to 3 mod 4 and every a in [0, p),
\* square_roots_mod_prime(a, p) returns Ok((r1, r2)) only if jacobi(a, p) is
\* 1, and then r1^2 = r2^2 = a (mod p); it returns CouldNotGenerateProof
\* whenever the symbol is not 1
C22_SquareRootsModPrime ==
    Returned("square_roots_mod_prime") =>
        /\ call.result.ok =>
            /\ jacobi(call.a, call.p) = 1
            /\ modpow(call.result.r, 2, call.p) = call.a
            /\ modpow(call.result.neg_r, 2, call.p) = call.a
        /\ jacobi(call.a, call.p) # 1 => call.result = CouldNotGenerateProof

\* the combinations (a, b) for which y' was found to have fourth roots
WithFourthRoots == {i \in DOMAIN call.found : call.found[i].ok}

\* C23: for N = p*q with p, q distinct primes congruent to 3 mod 4, w of
\* Jacobi symbol -1 and every challenge y in [0, N), exactly one (a, b)
\* makes (-1)^a * w^b * y have a fourth root mod N, and prove returns a
\* proof element and not CouldNotGenerateProof
C23_ProveSucceeds ==
    Returned("prove_element") =>
        /\ Cardinality(WithFourthRoots) = 1
        /\ call.result.ok

\* C23, as the code has it: exactly one (a, b) has fourth roots exactly when
\* the challenge y is coprime to N; prove returns an element, whose x is a
\* fourth root of y' and whose z is an N-th root of y, exactly when y is
\* coprime to N and N is coprime to (p-1)*(q-1), and CouldNotGenerateProof
\* otherwise
C23_ProveSucceedsForUnits ==
    Returned("prove_element") =>
        /\ Cardinality(WithFourthRoots) = 1 <=> Coprime(call.p * call.q, call.y)
        /\ call.result.ok <=>
            /\ Coprime(call.p * call.q, call.y)
            /\ Coprime(call.p * call.q, (call.p - 1) * (call.q - 1))
        /\ call.result.ok =>
            /\ modpow(call.result.element.x, 4, call.p * call.q)
                 = y_prime_from_y(call.y, call.w, call.result.element.a,
                                  call.result.element.b, call.p * call.q)
            /\ modpow(call.result.element.z, call.p * call.q, call.p * call.q)
                 = call.y
        /\ ~call.result.ok => call.result = CouldNotGenerateProof

\* an element was made for a challenge whose y' needed both the sign and w
C23_Witness ==
    /\ Returned("prove_element")
    /\ call.result.ok
    /\ call.result.element.a = 1
    /\ call.result.element.b = 1
    /\ call.y > 1

(***************************************************************************)
(* Properties of the Ready kickoff                                         *)
(***************************************************************************)
\* participant p has been given a Ready of every party, itself included
ReadyFromAll(p) ==
    \A q \in Ids : \E m \in delivered[p] :
        m.message_type = "Ready" /\ m.from = q

\* participant p generates its round-one messages in this step
GeneratesRoundOne(p) ==
    /\ "gen_round_one_msgs" \notin quorum[p].progress
    /\ "gen_round_one_msgs" \in quorum'[p].progress

\* a Disperse of the commitment of participant p is sent in this step, which
\* is not a second delivery by the transport
SendsRoundOne(p) ==
    \E q \in Ids : \E m \in BagToSet(inboxes'[q]) :
        /\ redelivered' = redelivered
        /\ m.from = p
        /\ m.message_type = "R1CommitHash"
        /\ m.body.btype = "Disperse"
        /\ m.body.data.leader = p
        /\ CopiesIn(m, inboxes'[q]) > CopiesIn(m, inboxes[q])

\* C24: a keygen participant generates its round-one messages only when it
\* has received Ready from every party including itself, and it generates
\* them exactly once however many Ready messages it processes
C24_ReadyKickoff ==
    [][\A p \in Ids :
          /\ GeneratesRoundOne(p) => ReadyFromAll(p)'
          /\ SendsRoundOne(p) => GeneratesRoundOne(p)]_vars

(***************************************************************************)
(* Properties of the echo broadcast, one handled message at a time         *)
(***************************************************************************)
\* the votes honest party p holds under the (tag, leader) of BroadcastData
\* d in session sid, as a function of the voters that have one
VotesUnder(p, sid, d) ==
    LET key(o) == VotesKey(sid, BroadcastIndex(d.tag, d.leader, o))
        voters == {o \in Range(bquorum[p].other_participant_ids) :
                     key(o) \in DOMAIN bquorum[p].votes}
    IN [o \in voters |-> bquorum[p].votes[key(o)]]

\* a vote of every other participant is stored under the (tag, leader) of d
AllVoted(p, sid, d) ==
    DOMAIN VotesUnder(p, sid, d) = Range(bquorum[p].other_participant_ids)

\* C25: a broadcast participant returns Terminated(BroadcastOutput) for
\* (tag, leader) only when a vote of every other participant id is stored
\* under (tag, leader) and all those votes are equal; the output message has
\* from = leader, to = self, the session id, the inner message type of the
\* BroadcastData and the agreed payload; while a vote of some other id is
\* missing there is neither an output nor an error
C25_TallyOutput ==
    handled # NoHandled =>
        LET p == handled.to
            m == handled.message
            votes == VotesUnder(p, m.id, m.body)
        IN /\ handled.output # NoOutput =>
                /\ handled.vote = "Terminated"
                /\ AllVoted(p, m.id, m.body)
                /\ \A o \in DOMAIN votes : votes[o] = votes[m.from]
                /\ handled.output =
                     BroadcastOutput(m.body.tag,
                                     Message(m.body.message_type, m.id, m.body.leader,
                                             p, votes[m.from]))
           /\ ~AllVoted(p, m.id, m.body) =>
                /\ handled.vote \in {"none", "Incomplete"}
                /\ handled.kind \in {"Incomplete", "Processed"}
                /\ handled.output = NoOutput

\* a party returned an output for a broadcast of the other honest party
C25_Witness ==
    /\ handled # NoHandled
    /\ handled.output # NoOutput
    /\ handled.message.body.leader \in HonestIds \ {handled.to}

\* a party holds votes of some but not all others and returned no output
C25_WitnessMissing ==
    /\ handled # NoHandled
    /\ handled.vote = "Incomplete"
    /\ ~AllVoted(handled.to, handled.message.id, handled.message.body)

\* a step in which an honest party handles a message
Handles == bsent' = bsent /\ handled' # NoHandled

\* the key of the vote the message handled in this step casts
HandledKey ==
    VotesKey(handled'.message.id,
             BroadcastIndex(handled'.message.body.tag, handled'.message.body.leader,
                            handled'.message.from))

\* the sender of the message handled in this step has a vote stored under
\* the (tag, leader) of the message
SecondVote == Handles /\ HandledKey \in DOMAIN bquorum[handled'.to].votes

EchoesExceptLeader(p, m) ==
    {Message("Redisperse", m.id, p, o, m.body) :
       o \in Range(bquorum[p].other_participant_ids) \ {m.body.leader}}

\* C27: when a participant processes a Disperse of leader L it records the
\* payload as a vote under (tag, L, sender) and returns Redisperse messages
\* with the same BroadcastData to every other participant except L, and
\* none to L or to itself
C27_EchoStep ==
    [][/\ Handles
       /\ handled'.message.message_type = "Disperse"
       /\ HandledKey \notin DOMAIN bquorum[handled'.to].votes
       => /\ HandledKey \in DOMAIN bquorum'[handled'.to].votes
          /\ bquorum'[handled'.to].votes[HandledKey] = handled'.message.body.data
          /\ Range(handled'.msgs) = EchoesExceptLeader(handled'.to, handled'.message)]_vars

\* the vote half of C27: the first Disperse of a sender for (tag, L) is
\* recorded as the vote of the sender, with the payload of the message
C27_VoteRecorded ==
    [][/\ Handles
       /\ handled'.message.message_type = "Disperse"
       /\ HandledKey \notin DOMAIN bquorum[handled'.to].votes
       => /\ HandledKey \in DOMAIN bquorum'[handled'.to].votes
          /\ bquorum'[handled'.to].votes[HandledKey] = handled'.message.body.data]_vars

RedisperseOncePerLeader ==
    [][(Handles /\ handled'.msgs # <<>>) =>
          /\ handled'.message.message_type = "Disperse"
          /\ ProgressKeyPerTag("gen_round_two_msgs", handled'.message.id,
                               handled'.message.body)
                \notin bquorum[handled'.to].progress
          /\ ProgressKeyPerTag("gen_round_two_msgs", handled'.message.id,
                               handled'.message.body)
                \in bquorum'[handled'.to].progress]_vars

\* a party has echoed the Disperse of two leaders under one tag in one
\* session
EchoedTwoLeaders ==
    \E p \in DOMAIN bquorum :
        Cardinality({k \in bquorum[p].progress :
                        k[1] = "gen_round_two_msgs"}) > 1

\* C29: a Redisperse whose leader is the receiving participant itself is
\* ignored: the outcome is Incomplete, no vote is stored and no message is
\* emitted; a Redisperse with any other leader is recorded as a vote of its
\* sender
C29_NoSelfEcho ==
    [][Handles /\ handled'.message.message_type = "Redisperse" =>
          IF handled'.message.body.leader = handled'.to
          THEN /\ handled'.kind = "Incomplete"
               /\ handled'.msgs = <<>>
               /\ bquorum'[handled'.to] = bquorum[handled'.to]
          ELSE /\ HandledKey \in DOMAIN bquorum'[handled'.to].votes
               /\ HandledKey \notin DOMAIN bquorum[handled'.to].votes =>
                    bquorum'[handled'.to].votes[HandledKey] =
                      handled'.message.body.data]_vars

\* a party was given a Redisperse of its own broadcast
C29_Witness ==
    /\ handled # NoHandled
    /\ handled.message.message_type = "Redisperse"
    /\ handled.message.body.leader = handled.to
    /\ \E sent \in bsent : sent[1] = handled.to

\* a party was given a Redisperse of the broadcast of another party
C29_WitnessOther ==
    /\ handled # NoHandled
    /\ handled.message.message_type = "Redisperse"
    /\ handled.message.body.leader # handled.to
    /\ handled.message.from \in
         DOMAIN VotesUnder(handled.to, handled.message.id, handled.message.body)

(***************************************************************************)
(* Properties of the order of delivery                                     *)
(***************************************************************************)
\* the leader of the broadcast
OrderLeader == (CHOOSE sent \in bsent : TRUE)[1]

\* the BroadcastData of the broadcast with payload v
OrderData(v) ==
    BroadcastData(OrderLeader, "KeyGenR1CommitHash",
                  MessageTypeOf("KeyGenR1CommitHash"), v)

\* the payload party o sent party p at the start of the broadcast
FirstHand(p, o) == (CHOOSE m \in bnet[p] : m.from = o).body.data

\* the vote of o that party p is due: what o sent p at the start, and for
\* an honest o that echoes, what the leader sent o
DueVote(p, o) ==
    IF o \in HonestIds \ {OrderLeader} THEN FirstHand(o, OrderLeader)
    ELSE FirstHand(p, o)

DueAgreed(p) ==
    \A o \in Range(bquorum[p].other_participant_ids) :
        DueVote(p, o) = DueVote(p, OrderLeader)

\* C30: for a fixed (session, tag, leader) the result a participant reaches,
\* a BroadcastOutput with a given payload or ProtocolError, is the same for
\* every order in which the Disperse and the Redisperse messages are
\* processed, Redisperse before Disperse included, and is unchanged by
\* delivering any of them more than once: it is the output of the leader's
\* payload when the votes due agree and ProtocolError when they do not, and
\* it is reached exactly when every vote is stored
C30_OrderIndependence ==
    bsent # {} =>
        \A p \in HonestIds :
            IF p = OrderLeader
            THEN boutputs[p] = {} /\ baborted[p] = {}
            ELSE /\ boutputs[p] \subseteq
                      {BroadcastOutput("KeyGenR1CommitHash",
                                       Message(MessageTypeOf("KeyGenR1CommitHash"), Sid,
                                               OrderLeader, p, DueVote(p, OrderLeader)))}
                 /\ boutputs[p] # {} => DueAgreed(p)
                 /\ baborted[p] # {} => ~DueAgreed(p)
                 /\ AllVoted(p, Sid, OrderData(0)) <=>
                      (boutputs[p] # {} \/ baborted[p] # {})

\* a party received every Redisperse before the Disperse and reached the
\* output when it processed the Disperse
C30_Witness ==
    /\ handled # NoHandled
    /\ handled.message.message_type = "Disperse"
    /\ handled.output # NoOutput
    /\ boutputs[handled.to] # {}

\* a party that has reached its result was given one of the messages again
C30_WitnessAgain ==
    /\ handled # NoHandled
    /\ handled.output = NoOutput
    /\ handled.kind # "Err"
    /\ AllVoted(handled.to, Sid, handled.message.body)
    /\ (boutputs[handled.to] # {} \/ baborted[handled.to] # {})

\* a party reached ProtocolError when it processed the Disperse last
C30_WitnessError ==
    /\ handled # NoHandled
    /\ handled.message.message_type = "Disperse"
    /\ handled.err = "ProtocolError"

(***************************************************************************)
(* Properties of the rounds of key generation                              *)
(***************************************************************************)
\* the leaders whose broadcast participant p completes in this step
CompletesBroadcastOf(p) ==
    quorum'[p].broadcast_participant.status \ quorum[p].broadcast_participant.status

\* the payload the votes of participant p agree on for leader l, after the
\* step
AgreedPayload(p, l) ==
    quorum'[p].broadcast_participant.votes[
        VotesKey(Sid, BroadcastIndex("KeyGenR1CommitHash", l, l))]

\* a Commit is stored for every other participant id
OtherCommitsStored(s) ==
    contains_for_all_ids(s, "Commit", s.other_participant_ids)

\* a message of a type from participant p is put into the inbox of q in
\* this step
Sends(p, type, q) ==
    \E m \in BagToSet(inboxes'[q]) :
        /\ m.from = p
        /\ m.message_type = type
        /\ CopiesIn(m, inboxes'[q]) > CopiesIn(m, inboxes[q])

\* C31: on each agreed R1CommitHash broadcast output the participant stores
\* Commit(leader); it emits its R2Decommit messages, one to every other
\* participant, exactly when commits are stored for all other participant
\* ids (its own commit is not part of the check), and before that it
\* returns no R2Decommit and no Output
C31_ReceiveRoundOne ==
    [][\A p \in Ids :
          Processes(p) =>
              /\ \A l \in CompletesBroadcastOf(p) :
                    /\ contains(quorum'[p], "Commit", l)
                    /\ retrieve(quorum'[p], "Commit", l) = Deserialize(AgreedPayload(p, l))
              /\ (OtherCommitsStored(quorum'[p]) /\ ~OtherCommitsStored(quorum[p]))
                    => \A q \in Ids \ {p} : Sends(p, "R2Decommit", q)
              /\ ~(OtherCommitsStored(quorum'[p]) /\ ~OtherCommitsStored(quorum[p]))
                    => \A q \in Ids : ~Sends(p, "R2Decommit", q)
              /\ ~OtherCommitsStored(quorum'[p]) =>
                    /\ result'[p].kind \in {"Incomplete", "Processed"}
                    /\ outputs'[p] = outputs[p]
                    /\ \A q \in Ids : \A m \in BagToSet(inboxes'[q]) :
                          (m.from = p /\ m.message_type # "R1CommitHash")
                             => CopiesIn(m, inboxes'[q]) = CopiesIn(m, inboxes[q])]_vars

\* in a quorum of three a participant holds the commit of one other
\* participant and waits, and another holds the commits of both others and
\* has generated its round two
C31_Witness ==
    /\ Cardinality(Ids) = QUORUM_SIZE
    /\ \E p \in Ids :
        /\ OtherCommitsStored(quorum[p])
        /\ "gen_round_two_msgs" \in quorum[p].progress
    /\ \E p \in Ids, l \in Ids :
        /\ l # p
        /\ contains(quorum[p], "Commit", l)
        /\ ~OtherCommitsStored(quorum[p])
        /\ result[p].message_type = "R1CommitHash"
        /\ l \in quorum[p].broadcast_participant.status

\* the decommitment of message m passes the check of handle_round_two_msg
\* at participant s
DecommitVerifies(s, m) ==
    /\ contains(s, "Commit", m.from)
    /\ decom_verify(m.body.decom, m.id, m.from, retrieve(s, "Commit", m.from))

\* participant s performs the check on an R2Decommit it is given
ChecksDecommits(s) ==
    /\ is_ready(s)
    /\ s.status # "TerminatedSuccessfully"
    /\ contains_for_all_ids(s, "Commit", all_participants(s))

\* C32: a Decommit stored for another participant j hashes to the stored
\* Commit(j) and carries the session id and the sender id of the message it
\* came in; an R2Decommit that fails this check makes process_message
\* return an error and stores no Decommit for j
C32_CommitBinding ==
    [][\A p \in Ids :
          /\ \A j \in Ids \ {p} :
                contains(quorum'[p], "Decommit", j) =>
                    /\ contains(quorum'[p], "Commit", j)
                    /\ KeygenCommit(retrieve(quorum'[p], "Decommit", j))
                         = retrieve(quorum'[p], "Commit", j)
                    /\ retrieve(quorum'[p], "Decommit", j).sid = Sid
                    /\ retrieve(quorum'[p], "Decommit", j).sender = j
          /\ (/\ Processes(p)
              /\ delivered'[p] # delivered[p]
              /\ Given(p).message_type = "R2Decommit"
              /\ ChecksDecommits(quorum[p])
              /\ ~DecommitVerifies(quorum[p], Given(p)))
             => /\ result'[p].kind = "Err"
                /\ quorum'[p].local_storage = quorum[p].local_storage]_vars

\* a participant was given a forged R2Decommit while it had no Decommit of
\* the sender, returned an error, and holds no Decommit of the sender
C32_Witness ==
    \E p \in Ids : \E m \in tampered :
        /\ m \in delivered[p]
        /\ m.message_type = "R2Decommit"
        /\ result[p].kind = "Err"
        /\ result[p].message_type = "R2Decommit"
        /\ ~contains(quorum[p], "Decommit", m.from)
        /\ contains(quorum[p], "Commit", m.from)

\* participant s performs the check on an R3Proof of message m
ChecksProofOf(s, m) ==
    /\ is_ready(s)
    /\ s.status # "TerminatedSuccessfully"
    /\ contains(s, "GlobalRid", s.id)
    /\ contains(s, "Decommit", m.from)

\* participant p has been given a Schnorr proof of j that verifies against
\* the public key share of Decommit(j) with the GlobalRid of p
VerifiedProofOf(p, j) ==
    \E m \in delivered[p] :
        /\ m.message_type = "R3Proof"
        /\ m.from = j
        /\ PiSchVerify(m.body.proof, retrieve(quorum[p], "Decommit", j).pk,
                       retrieve(quorum[p], "GlobalRid", p))

\* C33: PublicKeyshare(j) of another participant j is stored, and returned
\* in the Output, only after a Schnorr proof of j has verified against the
\* public key share of Decommit(j) with the participant's GlobalRid, and it
\* equals the share of Decommit(j); an R3Proof whose verification fails
\* returns an error and stores nothing for j
C33_ProofBeforeAcceptance ==
    [][\A p \in Ids :
          /\ \A j \in Ids \ {p} :
                contains(quorum'[p], "PublicKeyshare", j) =>
                    /\ VerifiedProofOf(p, j)'
                    /\ retrieve(quorum'[p], "PublicKeyshare", j)
                         = retrieve(quorum'[p], "Decommit", j).pk
          /\ (Terminated(p)' /\ ~Terminated(p)) =>
                \A j \in Ids \ {p} : VerifiedProofOf(p, j)'
          /\ Len(outputs'[p]) > Len(outputs[p]) =>
                \A j \in Ids \ {p} :
                    /\ VerifiedProofOf(p, j)'
                    /\ SharesFor(outputs'[p][Len(outputs'[p])], j)
                         = {retrieve(quorum'[p], "Decommit", j).pk}
          /\ (/\ Processes(p)
              /\ delivered'[p] # delivered[p]
              /\ Given(p).message_type = "R3Proof"
              /\ ChecksProofOf(quorum[p], Given(p))
              /\ ~PiSchVerify(Given(p).body.proof,
                              retrieve(quorum[p], "Decommit", Given(p).from).pk,
                              retrieve(quorum[p], "GlobalRid", p)))
             => /\ result'[p].kind = "Err"
                /\ quorum'[p].local_storage = quorum[p].local_storage
                /\ outputs'[p] = outputs[p]]_vars

\* a participant that holds the Decommit of the sender and its GlobalRid was
\* given a forged R3Proof and returned an error
C33_Witness ==
    \E p \in Ids : \E m \in tampered :
        /\ m \in delivered[p]
        /\ m.message_type = "R3Proof"
        /\ ~Terminated(p)
        /\ result[p].kind = "Err"
        /\ result[p].message_type = "R3Proof"
        /\ contains(quorum[p], "GlobalRid", p)
        /\ contains(quorum[p], "Decommit", m.from)
        /\ ~contains(quorum[p], "PublicKeyshare", m.from)

\* a participant was given a forged R3Proof and has terminated with the
\* Output of the run
C33_WitnessAccepted ==
    \E p \in Ids : \E m \in tampered :
        /\ m \in delivered[p]
        /\ m.message_type = "R3Proof"
        /\ Terminated(p)
        /\ Len(outputs[p]) = 1
        /\ ~PiSchVerify(m.body.proof, retrieve(quorum[p], "Decommit", m.from).pk,
                        retrieve(quorum[p], "GlobalRid", p))

\* participant p sets TerminatedSuccessfully in this step
Terminates(p) == Terminated(p)' /\ ~Terminated(p)

\* participant p returns an Output in this step
ReturnsOutput(p) == Len(outputs'[p]) > Len(outputs[p])

\* participant p holds a commit, a matching decommitment and a verified
\* Schnorr proof of every other participant
AcceptedEveryOther(p) ==
    \A j \in Ids \ {p} :
        /\ contains(quorum[p], "Commit", j)
        /\ contains(quorum[p], "Decommit", j)
        /\ KeygenCommit(retrieve(quorum[p], "Decommit", j))
             = retrieve(quorum[p], "Commit", j)
        /\ VerifiedProofOf(p, j)

\* the Output participant p returned last
LastOutput(p) == outputs[p][Len(outputs[p])]

\* the last Output of participant p holds one public share per participant,
\* the private share of p and its GlobalRid
OutputOf(p) ==
    LET o == LastOutput(p) IN
    /\ Len(o.public_key_shares) = Cardinality(Ids)
    /\ \A j \in Ids : Cardinality(SharesFor(o, j)) = 1
    /\ o.private_key_share = drawn[p].sk
    /\ o.rid = retrieve(quorum[p], "GlobalRid", p)

\* C34: a participant sets TerminatedSuccessfully and returns its Output in
\* one and the same step, a participant that has not terminated does not
\* hold a PublicKeyshare of every participant, and a participant terminates
\* only when it holds a commit, a matching decommitment and a verified
\* Schnorr proof of every other participant; the Output holds one public
\* share per participant, the own private share and the GlobalRid
C34_TerminationCondition ==
    [][\A p \in Ids :
          /\ Terminates(p) <=> ReturnsOutput(p)
          /\ ~Terminated(p)' =>
                ~contains_for_all_ids(quorum'[p], "PublicKeyshare",
                                      all_participants(quorum'[p]))
          /\ Terminates(p) => AcceptedEveryOther(p)'
          /\ ReturnsOutput(p) =>
                /\ Len(outputs'[p]) = Len(outputs[p]) + 1
                /\ OutputOf(p)']_vars

\* participant p executes the round generation function named gen in this
\* step: its progress entry is written
Generates(p, gen) ==
    /\ gen \notin quorum[p].progress
    /\ gen \in quorum'[p].progress

\* the messages of a round of participant p: the Disperse of its own
\* commitment, its R2Decommit, its R3Proof
RoundMessage(p, m, gen) ==
    /\ m.from = p
    /\ \/ /\ gen = "gen_round_one_msgs"
          /\ m.message_type = "R1CommitHash"
          /\ m.body.btype = "Disperse"
          /\ m.body.data.leader = p
       \/ gen = "gen_round_two_msgs" /\ m.message_type = "R2Decommit"
       \/ gen = "gen_round_three_msgs" /\ m.message_type = "R3Proof"

\* the messages of the round of gen that participant p sends to q in this
\* step
RoundSent(p, gen, q) ==
    {m \in BagToSet(inboxes'[q]) :
        /\ RoundMessage(p, m, gen)
        /\ CopiesIn(m, inboxes'[q]) > CopiesIn(m, inboxes[q])}

RoundGenerators == {"gen_round_one_msgs", "gen_round_two_msgs", "gen_round_three_msgs"}

\* C35: a progress entry of a round generation function, once written, stays
\* written; a step in which a participant sends a message of a round to
\* another participant is a step in which it writes the progress entry of
\* that round, and it sends one copy of one message to that participant and
\* none to itself: over any sequence of processed messages, duplicates
\* included, each round is generated at most once
C35_RunOnceRoundGeneration ==
    [][\A p \in Ids : \A gen \in RoundGenerators :
          /\ gen \in quorum[p].progress => gen \in quorum'[p].progress
          /\ redelivered' = redelivered =>
                \A q \in Ids :
                    RoundSent(p, gen, q) # {} =>
                        /\ Generates(p, gen)
                        /\ q # p
                        /\ Cardinality(RoundSent(p, gen, q)) = 1
                        /\ \A m \in RoundSent(p, gen, q) :
                              CopiesIn(m, inboxes'[q]) = CopiesIn(m, inboxes[q]) + 1]_vars

\* a participant that generated its three rounds was given the R2Decommit of
\* the other participant a second time, the one redelivery of the run, and
\* the step sent nothing; the other participant generated its rounds one and
\* two in the step of its Ready, from the commit it had stashed
C35_Witness ==
    \E p \in Ids, q \in Ids :
        /\ RoundGenerators \subseteq quorum[p].progress
        /\ redelivered = 1
        /\ ~Terminated(p)
        /\ result[p].message_type = "R2Decommit"
        /\ result[p].kind = "Incomplete"
        /\ q # p
        /\ result[q].message_type = "Ready"
        /\ "gen_round_two_msgs" \in quorum[q].progress

\* participant p is given an R2Decommit, performs the check of
\* KeygenDecommit::verify on it, and the check fails
DecommitCheckFails(p) ==
    /\ Processes(p)
    /\ delivered'[p] # delivered[p]
    /\ Given(p).message_type = "R2Decommit"
    /\ ChecksDecommits(quorum[p])
    /\ ~DecommitVerifies(quorum[p], Given(p))

\* participant p is given an R3Proof, performs the check of
\* PiSchProof::verify on it, and the check fails
ProofCheckFails(p) ==
    /\ Processes(p)
    /\ delivered'[p] # delivered[p]
    /\ Given(p).message_type = "R3Proof"
    /\ ChecksProofOf(quorum[p], Given(p))
    /\ ~PiSchVerify(Given(p).body.proof,
                    retrieve(quorum[p], "Decommit", Given(p).from).pk,
                    retrieve(quorum[p], "GlobalRid", p))

\* C36: process_message returns ProtocolError when a received decommitment
\* does not match the stored commit, the session id or the sender, and when
\* a received Schnorr proof does not verify
C36_CheckFailureIsProtocolError ==
    [][\A p \in Ids :
          (DecommitCheckFails(p) \/ ProofCheckFails(p)) =>
              /\ result'[p].kind = "Err"
              /\ result'[p].err = "ProtocolError"]_vars

\* C36, amended: a decommitment that does not match makes process_message
\* return ProtocolError; a Schnorr proof that does not verify makes it
\* return the error of PiSchProof::verify, FailedToVerifyProof
C36_CheckFailureErrors ==
    [][\A p \in Ids :
          /\ DecommitCheckFails(p) =>
                /\ result'[p].kind = "Err"
                /\ result'[p].err = "ProtocolError"
          /\ ProofCheckFails(p) =>
                /\ result'[p].kind = "Err"
                /\ result'[p].err = "FailedToVerifyProof"]_vars

\* a participant that holds the Decommit of the sender and its GlobalRid was
\* given a forged R3Proof, and process_message returned FailedToVerifyProof
C36_Witness ==
    \E q \in Ids : \E n \in tampered :
        /\ n \in delivered[q]
        /\ n.message_type = "R3Proof"
        /\ result[q] = [message_type |-> "R3Proof", kind |-> "Err",
                        err |-> "FailedToVerifyProof"]

(***************************************************************************)
(* Properties of the checks of the range proof                             *)
(***************************************************************************)
\* the challenge of the proof is the one the transcript yields
ChallengeMatches(r) ==
    r.proof.challenge
      = generate_challenge(Transcript(PiLogLabel), r.input,
                           r.proof.plaintext_commit, r.proof.mask_ciphertext,
                           r.proof.mask_dlog_commit, r.proof.mask_commit)

\* Enc(z1; z2) = A * C^e modulo N^2
PaillierMatches(r) ==
    LET N == r.input.prover_encryption_key
    IN ((1 + (r.proof.plaintext_response % N) * N)
          * modpow(r.proof.nonce_response, N, N * N)) % (N * N)
       = (pow_signed(r.input.ciphertext, r.proof.challenge, N * N)
            * r.proof.mask_ciphertext) % (N * N)

\* g * z1 = Y + X * e
GroupMatches(r) ==
    PointMul(r.input.generator, r.proof.plaintext_response)
      = PointAdd(r.proof.mask_dlog_commit,
                 PointMul(r.input.dlog_commit, r.proof.challenge))

\* s^z1 * t^z3 = D * S^e modulo the ring-Pedersen modulus
CommitmentMatches(r) ==
    LET rp == r.input.ring_pedersen
    IN (pow_signed(rp.s, r.proof.plaintext_response, rp.N)
          * pow_signed(rp.t, r.proof.plaintext_commit_response, rp.N)) % rp.N
       = (r.proof.mask_commit
            * pow_signed(r.proof.plaintext_commit, r.proof.challenge, rp.N)) % rp.N

\* |z1| <= 2^(ELL + EPSILON)
ResponseInRange(r) ==
    /\ r.proof.plaintext_response <= 2 ^ (ELL + EPSILON)
    /\ r.proof.plaintext_response >= -(2 ^ (ELL + EPSILON))

\* the five checks of verify
AllChecksHold(r) ==
    /\ ChallengeMatches(r)
    /\ PaillierMatches(r)
    /\ GroupMatches(r)
    /\ CommitmentMatches(r)
    /\ ResponseInRange(r)

\* the checks verify has made when it comes to a computation
ChecksBefore(r, step) ==
    CASE step = "generate_challenge" -> TRUE
      [] step \in {"encrypt_with_nonce", "multiply_and_add"} ->
            ChallengeMatches(r)
      [] OTHER -> ChallengeMatches(r) /\ PaillierMatches(r)

\* C37: verify returns Ok exactly when the challenge of the proof is the
\* recomputed Fiat-Shamir challenge, Enc(z1; z2) = A * C^e, g * z1 = Y + X * e,
\* the ring-Pedersen reconstruction of (z1, z3) equals D * S^e and
\* |z1| <= 2^(ELL + EPSILON); otherwise it returns FailedToVerifyProof
C37_PiLogVerifyChecks ==
    PiLogVerified =>
        /\ pilog.verdict \in {"Ok", "FailedToVerifyProof"}
        /\ pilog.verdict = "Ok" <=> AllChecksHold(pilog)

\* C37, as the code has it: when every computation of verify returns a value,
\* verify returns Ok exactly when the five checks hold and FailedToVerifyProof
\* when one of them fails; when generate_challenge, encrypt_with_nonce,
\* multiply_and_add or multiply_by_scalar returns an error, verify returns
\* that error unless a check made before the computation has failed, whatever
\* the later checks would give, and never Ok
C37_PiLogVerifyChecksOrError ==
    PiLogVerified =>
        /\ pilog.verdict = "Ok"
             <=> (pilog.failed = NoFailure /\ AllChecksHold(pilog))
        /\ (pilog.failed = NoFailure /\ ~AllChecksHold(pilog))
             => pilog.verdict = "FailedToVerifyProof"
        /\ \A step \in pilog.failed :
              pilog.verdict = IF ChecksBefore(pilog, step)
                              THEN error_of(step)
                              ELSE "FailedToVerifyProof"

\* the proof of a plaintext out of range whose response is out of range:
\* encrypt_with_nonce returns an error, and verify returns it where the range
\* check would have failed
C37_WitnessError ==
    /\ PiLogVerified
    /\ pilog.failed = {"encrypt_with_nonce"}
    /\ ChallengeMatches(pilog)
    /\ ~ResponseInRange(pilog)
    /\ pilog.verdict = error_of("encrypt_with_nonce")

\* the challenge of the proof was changed and encrypt_with_nonce returns an
\* error: the challenge check is made first and fails
C37_WitnessCheckBeforeError ==
    /\ PiLogVerified
    /\ pilog.failed = {"encrypt_with_nonce"}
    /\ ~ChallengeMatches(pilog)
    /\ pilog.verdict = "FailedToVerifyProof"

\* every check holds and multiply_by_scalar returns an error: verify returns
\* it, not Ok
C37_WitnessErrorOfAccepted ==
    /\ PiLogVerified
    /\ pilog.failed = {"multiply_by_scalar(challenge)"}
    /\ AllChecksHold(pilog)
    /\ pilog.verdict = error_of("multiply_by_scalar(challenge)")

\* a proof whose third response was changed passes every check but the
\* ring-Pedersen one, and is rejected
C37_Witness ==
    /\ PiLogVerified
    /\ "altered" \in DOMAIN pilog
    /\ ChallengeMatches(pilog)
    /\ PaillierMatches(pilog)
    /\ GroupMatches(pilog)
    /\ ~CommitmentMatches(pilog)
    /\ ResponseInRange(pilog)
    /\ pilog.verdict = "FailedToVerifyProof"

\* a proof that fails the challenge check only
C37_WitnessChallenge ==
    /\ PiLogVerified
    /\ ~ChallengeMatches(pilog)
    /\ pilog.verdict = "FailedToVerifyProof"

\* a proof that fails the Paillier check only
C37_WitnessPaillier ==
    /\ PiLogVerified
    /\ ChallengeMatches(pilog)
    /\ ~PaillierMatches(pilog)
    /\ GroupMatches(pilog)
    /\ CommitmentMatches(pilog)
    /\ ResponseInRange(pilog)
    /\ pilog.verdict = "FailedToVerifyProof"

\* a proof for a statement whose curve point is not the one of the
\* plaintext fails the group check only
C37_WitnessGroup ==
    /\ PiLogVerified
    /\ ChallengeMatches(pilog)
    /\ PaillierMatches(pilog)
    /\ ~GroupMatches(pilog)
    /\ CommitmentMatches(pilog)
    /\ ResponseInRange(pilog)
    /\ pilog.verdict = "FailedToVerifyProof"

\* a proof that fails the range check only
C37_WitnessRange ==
    /\ PiLogVerified
    /\ ChallengeMatches(pilog)
    /\ PaillierMatches(pilog)
    /\ GroupMatches(pilog)
    /\ CommitmentMatches(pilog)
    /\ ~ResponseInRange(pilog)
    /\ pilog.verdict = "FailedToVerifyProof"

\* a proof that passes the five checks
C37_WitnessOk ==
    /\ PiLogVerified
    /\ ChallengeMatches(pilog)
    /\ PaillierMatches(pilog)
    /\ GroupMatches(pilog)
    /\ CommitmentMatches(pilog)
    /\ ResponseInRange(pilog)
    /\ pilog.verdict = "Ok"

(***************************************************************************)
(* Properties of the outputs of the echo broadcast                         *)
(***************************************************************************)
\* honest party p has returned a BroadcastOutput for (session, tag, leader)
HasOutput(p, sid, tag, leader) ==
    \E o \in boutputs[p] :
        o.tag = tag /\ o.msg.id = sid /\ o.msg.from = leader

\* C38: a broadcast participant that is given Disperse and Redisperse
\* messages of its other participants returns Terminated(BroadcastOutput)
\* for a (session, tag, leader) only when it has returned none for that
\* (session, tag, leader) before: at most once each
C38_OneOutputPerLeader ==
    [][(Handles /\ handled'.output # NoOutput) =>
          /\ handled'.message.from
               \in Range(bquorum[handled'.to].other_participant_ids)
          /\ handled'.output.tag = handled'.message.body.tag
          /\ handled'.output.msg.from = handled'.message.body.leader
          /\ handled'.output.msg.id = handled'.message.id
          /\ ~HasOutput(handled'.to, handled'.message.id,
                        handled'.message.body.tag, handled'.message.body.leader)]_vars

\* a party that has returned the BroadcastOutput of a leader was given
\* another message for that (session, tag, leader), from the byzantine party
\* and with another payload than the agreed one, and returned no output
C38_Witness ==
    /\ handled # NoHandled
    /\ HasOutput(handled.to, handled.message.id, handled.message.body.tag,
                 handled.message.body.leader)
    /\ handled.message.from \in byzantine
    /\ \A o \in boutputs[handled.to] : o.msg.body # handled.message.body.data
    /\ handled.output = NoOutput
    /\ handled.kind # "Err"

(***************************************************************************)
(* Properties of the own commitment of a key generation participant        *)
(***************************************************************************)
\* the slots gen_round_one_msgs stores for the participant itself
OwnSlots == {"Commit", "Decommit", "SchnorrPrecom", "PrivateKeyshare", "PublicKeyshare"}

\* the commitments participant p has broadcast: the payloads of its own
\* Disperse messages, waiting or delivered
CommitsBroadcast(p) ==
    {Deserialize(d.body.data.data) :
        d \in {m \in UNION {BagToSet(inboxes[q]) \cup delivered[q] : q \in Ids} :
                 RoundMessage(p, m, "gen_round_one_msgs")}}

\* C39: when gen_round_two_msgs runs, round one has been generated and
\* Decommit(self) exists; a slot gen_round_one_msgs stored for the
\* participant itself keeps its value, Commit, Decommit and SchnorrPrecom
\* stay, and the key shares, once removed, do not come back; an R2Decommit
\* the participant sends carries Decommit(self), and its commit() is the
\* one payload the participant has broadcast by then
C39_DecommitOfBroadcastCommit ==
    [][\A p \in Ids :
          /\ Generates(p, "gen_round_two_msgs") =>
                /\ "gen_round_one_msgs" \in quorum'[p].progress
                /\ contains(quorum'[p], "Decommit", p)
          /\ \A slot \in OwnSlots :
                /\ (contains(quorum[p], slot, p) /\ contains(quorum'[p], slot, p))
                      => retrieve(quorum'[p], slot, p) = retrieve(quorum[p], slot, p)
                /\ (contains(quorum[p], slot, p) /\ ~contains(quorum'[p], slot, p))
                      => /\ slot \in {"PrivateKeyshare", "PublicKeyshare"}
                         /\ Terminated(p)'
                /\ (~contains(quorum[p], slot, p) /\ contains(quorum'[p], slot, p))
                      => Generates(p, "gen_round_one_msgs")
          /\ Processes(p) =>
                \A q \in Ids : \A m \in RoundSent(p, "gen_round_two_msgs", q) :
                    /\ m.body.decom = retrieve(quorum'[p], "Decommit", p)
                    /\ CommitsBroadcast(p)' = {KeygenCommit(m.body.decom)}]_vars

(***************************************************************************)
(* Properties of a Disperse that completes a vote without agreement        *)
(***************************************************************************)
\* the party that handled the last message holds a vote of every other
\* participant under the (tag, leader) of that message, and the votes are
\* not all equal
HandledDisagreement ==
    /\ AllVoted(handled.to, handled.message.id, handled.message.body)
    /\ Cardinality(Range(VotesUnder(handled.to, handled.message.id,
                                    handled.message.body))) > 1

\* the message handled in this step is a Disperse whose sender had no vote
\* under its (tag, leader), and with its vote every other participant has
\* one and the votes are not all equal
DisperseCompletesDisagreement ==
    /\ Handles
    /\ handled'.message.message_type = "Disperse"
    /\ HandledKey \notin DOMAIN bquorum[handled'.to].votes
    /\ HandledDisagreement'

\* C40: a Disperse whose vote completes a vote set that is not unanimous
\* makes handle_round_one_msg return ProtocolError before the Redisperse
\* step: no message is returned, and the run-once entry of the (session,
\* tag) is as it was before the call
C40_ErrorBeforeRedisperse ==
    [][DisperseCompletesDisagreement =>
          /\ handled'.kind = "Err"
          /\ handled'.err = "ProtocolError"
          /\ handled'.msgs = <<>>
          /\ handled'.output = NoOutput
          /\ bquorum'[handled'.to].progress = bquorum[handled'.to].progress
          /\ echoes' = echoes]_vars

\* a party that had not echoed the leader of a Disperse was given that Disperse,
\* which completed a vote set without agreement: it returned ProtocolError
\* and its run-once entry for the (session, tag) is still free
C40_Witness ==
    /\ handled # NoHandled
    /\ handled.message.message_type = "Disperse"
    /\ handled.kind = "Err"
    /\ handled.err = "ProtocolError"
    /\ handled.msgs = <<>>
    /\ HandledDisagreement
    /\ ProgressKeyPerTag("gen_round_two_msgs", handled.message.id, handled.message.body)
         \notin bquorum[handled.to].progress

====
